---------------------------- MODULE Spec2Model ----------------------------
(***************************************************************************)
(* A model of the Auto-Grader grading engine (src/grading): text           *)
(* normalisation, keyword matching, TF-IDF cosine similarity, the          *)
(* confidence fusion, marks banding, sheet grading and the stored Result   *)
(* with its grade / GPA classification.                                    *)
(*                                                                         *)
(* Conventions.                                                            *)
(*  - A Python str is a sequence of one-character strings.                 *)
(*  - A Python float / Decimal is an exact rational [n |-> Int, d |-> Nat] *)
(*    in lowest terms (binary rounding of floats is not modelled).         *)
(*  - A JSON value of an answer key is a tagged record: JStr, JNum, JList  *)
(*    or JMissing (the key is absent from the dict).                       *)
(*  - A Python call that can raise returns [raised |-> BOOLEAN, ...].      *)
(***************************************************************************)
EXTENDS Integers, Sequences, FiniteSets, TLC

VARIABLES
    question,        \* SpecQuestion: the Question passed to grade_question
    student_answer,  \* SpecQuestion: the submitted text
    config,          \* SpecQuestion: the config argument (a row, or NoConfig)
    outcome,         \* SpecQuestion: what the last grade_question call returned
    call,            \* a direct call of one function: its arguments and value
    configs,         \* table ProbabilisticGradingConfig (rows, unique by name)
    questions,       \* table Question
    sheets,          \* table AnswerSheet
    results,         \* table Result
    rules,           \* table GradingRule
    orm,             \* which QuerySet.update_or_create the installed Django has
    response         \* what the last request handler returned

call_vars == <<question, student_answer, config, outcome, call>>
db_vars   == <<questions, sheets, results, rules, orm, response>>
vars      == <<question, student_answer, config, outcome, call, configs,
               questions, sheets, results, rules, orm, response>>

(***************************************************************************)
(* Exact rational arithmetic (Python float / Decimal arithmetic).          *)
(***************************************************************************)
Abs(x) == IF x < 0 THEN -x ELSE x

RECURSIVE GCD(_, _)
GCD(a, b) == IF b = 0 THEN a ELSE GCD(b, a % b)

Rat(n, d) ==
    LET g == GCD(Abs(n), Abs(d))
        s == IF d < 0 THEN -1 ELSE 1
    IN  [n |-> (s * n) \div g, d |-> (s * d) \div g]

R0 == Rat(0, 1)
R1 == Rat(1, 1)

RAdd(a, b) ==
    LET g == GCD(a.d, b.d)
    IN  Rat(a.n * (b.d \div g) + b.n * (a.d \div g), (a.d \div g) * b.d)

RNeg(a) == [n |-> -a.n, d |-> a.d]
RSub(a, b) == RAdd(a, RNeg(b))

RMul(a, b) ==
    LET x == Rat(a.n, b.d)
        y == Rat(b.n, a.d)
    IN  Rat(x.n * y.n, x.d * y.d)

RDiv(a, b) == RMul(a, Rat(b.d, b.n))

RLe(a, b) == a.n * b.d <= b.n * a.d
RLt(a, b) == a.n * b.d < b.n * a.d
RGe(a, b) == RLe(b, a)
RMin(a, b) == IF RLe(a, b) THEN a ELSE b

RECURSIVE RSum(_)
RSum(s) == IF s = <<>> THEN R0 ELSE RAdd(Head(s), RSum(Tail(s)))

\* round(x, 4): nearest multiple of 1/10000, ties to even.
Round4(x) ==
    LET q  == x.n \div x.d
        r0 == x.n % x.d
        h1 == (r0 * 100) \div x.d
        r1 == (r0 * 100) % x.d
        h2 == (r1 * 100) \div x.d
        r2 == (r1 * 100) % x.d
        lo == q * 10000 + h1 * 100 + h2
        up == IF 2 * r2 > x.d THEN 1
              ELSE IF 2 * r2 = x.d /\ lo % 2 = 1 THEN 1
              ELSE 0
    IN  Rat(lo + up, 10000)

(***************************************************************************)
(* Characters and the str methods the engine uses.                         *)
(***************************************************************************)
LowerLetters == <<"a", "b", "c", "i", "s", "t">>
UpperLetters == <<"A", "B", "C", "I", "S", "T">>
Whitespace   == {" "}
Punctuation  == {".", "!"}

Range(f) == {f[i] : i \in DOMAIN f}

IndexIn(c, letters) == CHOOSE i \in DOMAIN letters : letters[i] = c

LowerCh(c) == IF c \in Range(UpperLetters)
              THEN LowerLetters[IndexIn(c, UpperLetters)] ELSE c
UpperCh(c) == IF c \in Range(LowerLetters)
              THEN UpperLetters[IndexIn(c, LowerLetters)] ELSE c

lower(s) == [i \in 1..Len(s) |-> LowerCh(s[i])]
upper(s) == [i \in 1..Len(s) |-> UpperCh(s[i])]

\* str.strip() that removes nothing.
strip_nothing(s) == s

RECURSIVE lstrip(_)
lstrip(s) == IF s # <<>> /\ Head(s) \in Whitespace THEN lstrip(Tail(s)) ELSE s

RECURSIVE rstrip(_)
rstrip(s) == IF s # <<>> /\ s[Len(s)] \in Whitespace
             THEN rstrip(SubSeq(s, 1, Len(s) - 1)) ELSE s

strip(s) == rstrip(lstrip(s))

\* str.split(): the maximal runs of non-whitespace characters, in order.
RECURSIVE SplitFrom(_, _, _)
SplitFrom(s, cur, acc) ==
    IF s = <<>>
    THEN IF cur = <<>> THEN acc ELSE Append(acc, cur)
    ELSE IF Head(s) \in Whitespace
         THEN SplitFrom(Tail(s), <<>>, IF cur = <<>> THEN acc ELSE Append(acc, cur))
         ELSE SplitFrom(Tail(s), Append(cur, Head(s)), acc)

split(s) == SplitFrom(s, <<>>, <<>>)

\* ' '.join(words)
RECURSIVE join(_)
join(words) ==
    IF words = <<>> THEN <<>>
    ELSE IF Len(words) = 1 THEN words[1]
    ELSE words[1] \o <<" ">> \o join(Tail(words))

\* text.translate(str.maketrans('', '', string.punctuation))
remove_punctuation(s) == SelectSeq(s, LAMBDA c : c \notin Punctuation)

\* a in b, for two strs
contains(b, a) ==
    \E i \in 0..(Len(b) - Len(a)) : SubSeq(b, i + 1, i + Len(a)) = a

(***************************************************************************)
(* JSON values of Question.answer_key (a JSONField, models.py of exams).   *)
(***************************************************************************)
JMissing   == [t |-> "missing"]
JStr(s)    == [t |-> "str", v |-> s]
JNum(k)    == [t |-> "num", v |-> k]
JList(l)   == [t |-> "list", v |-> l]

\* dict.get(key, default)
get(answer_key, key, default) ==
    IF answer_key[key].t = "missing" THEN default ELSE answer_key[key]

\* Python truthiness of a JSON value: '' / [] / 0 are falsy.
truthy(j) ==
    CASE j.t = "str"  -> j.v # <<>>
      [] j.t = "list" -> j.v # <<>>
      [] j.t = "num"  -> j.v # 0
      [] OTHER        -> FALSE

Ok(v)  == [raised |-> FALSE, value |-> v]
Raised == [raised |-> TRUE, value |-> R0]

(***************************************************************************)
(* nlp_utils.py                                                            *)
(***************************************************************************)
\* The stopwords of STOPWORDS that can be spelled with LowerLetters.
STOPWORDS ==
    { <<"i">>, <<"a">>, <<"i", "s">>, <<"i", "t">>, <<"i", "t", "s">>,
      <<"a", "s">>, <<"a", "t">> }

\* preprocess_text with the stopwords removed before the punctuation.
preprocess_text_stopwords_first(text, remove_stopwords) ==
    IF text = <<>> THEN <<>>
    ELSE LET lowered   == lower(text)
             collapsed == join(split(lowered))
             kept      == IF remove_stopwords
                          THEN join(SelectSeq(split(collapsed), LAMBDA w : w \notin STOPWORDS))
                          ELSE collapsed
         IN  join(split(remove_punctuation(kept)))

preprocess_text(text, remove_stopwords) ==
    IF text = <<>> THEN <<>>
    ELSE LET lowered   == lower(text)
             nopunct   == remove_punctuation(lowered)
             collapsed == join(split(nopunct))
         IN  IF remove_stopwords
             THEN join(SelectSeq(split(collapsed), LAMBDA w : w \notin STOPWORDS))
             ELSE collapsed

tokenize(text) == split(preprocess_text(text, TRUE))

Max(x, y) == IF x >= y THEN x ELSE y

\* Length of a longest common subsequence.
RECURSIVE LCS(_, _)
LCS(a, b) ==
    IF a = <<>> \/ b = <<>> THEN 0
    ELSE IF Head(a) = Head(b) THEN 1 + LCS(Tail(a), Tail(b))
    ELSE Max(LCS(Tail(a), b), LCS(a, Tail(b)))

\* Levenshtein.distance with substitution cost 2, as Levenshtein.ratio uses it.
indel_distance(str1, str2) == Len(str1) + Len(str2) - 2 * LCS(str1, str2)

\* Levenshtein.ratio(str1, str2) = (lensum - distance) / lensum, 1.0 for two
\* empty strings.
calculate_levenshtein_similarity(str1, str2) ==
    LET lensum == Len(str1) + Len(str2)
    IN  IF lensum = 0 THEN R1
        ELSE Rat(lensum - indel_distance(str1, str2), lensum)

FuzzyThreshold == Rat(8, 10)

\* The inner loop of calculate_keyword_match: the first word, in the set's
\* iteration order, whose similarity reaches the threshold contributes
\* weight * similarity; no qualifying word contributes 0.
RECURSIVE fuzzy_contribution(_, _, _)
fuzzy_contribution(keyword_clean, weight, order) ==
    IF order = <<>> THEN R0
    ELSE LET compare(similarity) ==
                 IF RGe(similarity, FuzzyThreshold)
                 THEN RMul(weight, similarity)
                 ELSE fuzzy_contribution(keyword_clean, weight, Tail(order))
         IN  compare(calculate_levenshtein_similarity(keyword_clean, Head(order)))

\* The for-loop over zip(keywords, weights).
RECURSIVE keyword_loop(_, _, _, _)
keyword_loop(keywords, weights, student_text, order) ==
    IF keywords = <<>> \/ weights = <<>> THEN R0
    ELSE LET contribution(keyword_clean, weight) ==
                 IF contains(student_text, keyword_clean)
                 THEN weight
                 ELSE fuzzy_contribution(keyword_clean, weight, order)
         IN  RAdd(contribution(preprocess_text(Head(keywords), TRUE), Head(weights)),
                  keyword_loop(Tail(keywords), Tail(weights), student_text, order))

\* The iteration orders of a Python set of strs (hash order: any order).
Orders(S) ==
    {o \in [1..Cardinality(S) -> S] : \A w \in S : \E i \in DOMAIN o : o[i] = w}

student_words_of(student_answer_) ==
    Range(split(preprocess_text(student_answer_, TRUE)))

\* Iterating a JSON list gives its items, iterating a str its characters.
iterate(j) ==
    CASE j.t = "list" -> j.v
      [] j.t = "str"  -> [i \in 1..Len(j.v) |-> <<j.v[i]>>]
      [] OTHER        -> <<>>

\* calculate_keyword_match(student_answer, keywords, weights=None); keywords and
\* weights are JSON values, order is the iteration order of student_words.
\* Raises (TypeError) where Python would: len() or zip() of a number, sum() of
\* a number.
calculate_keyword_match(student_answer_, keywords, weights, order) ==
    IF ~truthy(keywords) \/ student_answer_ = <<>> THEN Ok(R0)
    ELSE IF weights.t = "missing" /\ keywords.t = "num" THEN Raised
    ELSE IF weights.t \notin {"missing", "list"} THEN Raised
    ELSE
      LET student_text == preprocess_text(student_answer_, TRUE)
          normalize(items, raw, total_weight) ==
              IF total_weight = R0 THEN Ok(R0)
              ELSE IF keywords.t = "num" THEN Raised
              ELSE Ok(RMin(keyword_loop(items,
                                        [i \in 1..Len(raw) |-> RDiv(raw[i], total_weight)],
                                        student_text, order),
                           R1))
          weigh(items, raw) == normalize(items, raw, RSum(raw))
          default_weights(items) == [i \in 1..Len(items) |-> Rat(1, Len(items))]
      IN  IF weights.t = "missing"
          THEN weigh(iterate(keywords), default_weights(iterate(keywords)))
          ELSE weigh(iterate(keywords), [i \in 1..Len(weights.v) |-> Rat(weights.v[i], 1)])

(***************************************************************************)
(* TfidfVectorizer().fit_transform([text1_clean, text2_clean]) followed by *)
(* cosine_similarity: tokens are the words of two or more characters       *)
(* (token_pattern \w\w+), tf is the raw count, idf = ln(3 / (1 + df)) + 1, *)
(* which is 1 for a term of both documents and 1 + ln 1.5 for a term of    *)
(* one; rows are L2-normalised.  The square of 1 + ln 1.5 = 1.97533... is  *)
(* taken as IdfSqNum / IdfSqDen.                                           *)
(***************************************************************************)
IdfSqNum == 79
IdfSqDen == 40

\* floor(sqrt(x)), by Newton's iteration from above.
RECURSIVE isqrt_from(_, _)
isqrt_from(x, r) ==
    LET nr == (r + x \div r) \div 2
    IN  IF nr >= r THEN r ELSE isqrt_from(x, nr)

isqrt(x) == IF x = 0 THEN 0 ELSE isqrt_from(x, x)

tfidf_tokens(clean) == SelectSeq(split(clean), LAMBDA w : Len(w) >= 2)

term_count(tokens, term) == Cardinality({i \in DOMAIN tokens : tokens[i] = term})

RECURSIVE SumOver(_, _)
SumOver(S, f) ==
    IF S = {} THEN 0
    ELSE LET x == CHOOSE y \in S : TRUE IN f[x] + SumOver(S \ {x}, f)

\* IdfSqDen * (squared norm of the tf-idf row of `mine`), `other` being the other row.
scaled_sq_norm(mine, other) ==
    LET weighted(terms, shared, sq) ==
            IdfSqDen * SumOver(shared, sq) + IdfSqNum * SumOver(terms \ shared, sq)
    IN  weighted(Range(mine), Range(mine) \cap Range(other),
                 [t \in Range(mine) |-> term_count(mine, t) * term_count(mine, t)])

tfidf_cosine(tokens1, tokens2) ==
    LET dot(shared) ==
            SumOver(shared,
                    [t \in shared |-> term_count(tokens1, t) * term_count(tokens2, t)])
        cosine(p1, p2) ==
            IF p1 = 0 \/ p2 = 0 THEN R0
            ELSE Rat(IdfSqDen * dot(Range(tokens1) \cap Range(tokens2)) * 10,
                     isqrt(p1 * p2 * 100))
    IN  cosine(scaled_sq_norm(tokens1, tokens2), scaled_sq_norm(tokens2, tokens1))

\* calculate_cosine_similarity answering 1.0 for two equal normalized texts
\* before any vector is built.
calculate_cosine_similarity_shortcut(text1, text2) ==
    IF text1 = <<>> \/ ~truthy(text2) THEN R0
    ELSE IF text2.t # "str" THEN R0
    ELSE LET vectorize(tokens1, tokens2) ==
                 IF tokens1 = <<>> /\ tokens2 = <<>> THEN R0
                 ELSE tfidf_cosine(tokens1, tokens2)
             compare(text1_clean, text2_clean) ==
                 IF text1_clean = <<>> \/ text2_clean = <<>> THEN R0
                 ELSE IF text1_clean = text2_clean THEN R1
                 ELSE vectorize(tfidf_tokens(text1_clean), tfidf_tokens(text2_clean))
         IN  compare(preprocess_text(text1, TRUE), preprocess_text(text2.v, TRUE))

\* calculate_cosine_similarity(text1, text2); text2 is a JSON value.  A value
\* that is not a str makes preprocess_text raise inside the try block, and an
\* empty vocabulary makes fit_transform raise: both are caught and give 0.0.
calculate_cosine_similarity(text1, text2) ==
    IF text1 = <<>> \/ ~truthy(text2) THEN R0
    ELSE IF text2.t # "str" THEN R0
    ELSE LET vectorize(tokens1, tokens2) ==
                 IF tokens1 = <<>> /\ tokens2 = <<>> THEN R0
                 ELSE tfidf_cosine(tokens1, tokens2)
             compare(text1_clean, text2_clean) ==
                 IF text1_clean = <<>> \/ text2_clean = <<>> THEN R0
                 ELSE vectorize(tfidf_tokens(text1_clean), tfidf_tokens(text2_clean))
         IN  compare(preprocess_text(text1, TRUE), preprocess_text(text2.v, TRUE))

DefaultPrior == Rat(1, 2)

\* bayesian_inference weighing the two scores equally.
bayesian_inference_even(keyword_score, similarity_score, prior_probability) ==
    LET posterior(evidence_score, p_evidence) ==
            IF p_evidence = R0 THEN R0
            ELSE RDiv(RMul(evidence_score, prior_probability), p_evidence)
        total(evidence_score) ==
            posterior(evidence_score,
                      RAdd(RMul(evidence_score, prior_probability),
                           RMul(RSub(R1, evidence_score), RSub(R1, prior_probability))))
    IN  total(RAdd(RMul(keyword_score, Rat(5, 10)), RMul(similarity_score, Rat(5, 10))))

\* bayesian_inference returning 1.0 for a zero P(Evidence).
bayesian_inference_certain(keyword_score, similarity_score, prior_probability) ==
    LET posterior(evidence_score, p_evidence) ==
            IF p_evidence = R0 THEN R1
            ELSE RDiv(RMul(evidence_score, prior_probability), p_evidence)
        total(evidence_score) ==
            posterior(evidence_score,
                      RAdd(RMul(evidence_score, prior_probability),
                           RMul(RSub(R1, evidence_score), RSub(R1, prior_probability))))
    IN  total(RAdd(RMul(keyword_score, Rat(6, 10)), RMul(similarity_score, Rat(4, 10))))

bayesian_inference(keyword_score, similarity_score, prior_probability) ==
    LET posterior(p_evidence_given_correct, p_correct, p_evidence) ==
            IF p_evidence = R0 THEN R0
            ELSE RDiv(RMul(p_evidence_given_correct, p_correct), p_evidence)
        total(p_evidence_given_correct, p_evidence_given_incorrect,
              p_correct, p_incorrect) ==
            posterior(p_evidence_given_correct, p_correct,
                      RAdd(RMul(p_evidence_given_correct, p_correct),
                           RMul(p_evidence_given_incorrect, p_incorrect)))
        likelihoods(evidence_score) ==
            total(evidence_score, RSub(R1, evidence_score),
                  prior_probability, RSub(R1, prior_probability))
    IN  likelihoods(RAdd(RMul(keyword_score, Rat(6, 10)),
                         RMul(similarity_score, Rat(4, 10))))

(***************************************************************************)
(* grading_engine.py                                                       *)
(***************************************************************************)
\* config=None
NoConfig == [none |-> TRUE]

\* A ProbabilisticGradingConfig row; thresholds are DecimalFields with two
\* decimal places, held in hundredths.
ConfigRow(name, full, partial, pct, kw, sim, bayes) ==
    [name |-> name,
     full_marks_threshold |-> full,
     partial_marks_threshold |-> partial,
     partial_marks_percentage |-> pct,
     use_keyword_matching |-> kw,
     use_similarity_scoring |-> sim,
     use_bayesian_inference |-> bayes]

\* The defaults of get_or_create(name='Default', defaults={...}) and of the
\* model's BooleanFields.
DefaultConfig == ConfigRow("Default", 70, 40, 70, TRUE, TRUE, TRUE)

\* ProbabilisticGradingConfig.objects.get_or_create(name='Default', ...): the
\* row and the table afterwards.
get_or_create_default(table) ==
    IF \E c \in table : c.name = "Default"
    THEN [row |-> CHOOSE c \in table : c.name = "Default", table |-> table]
    ELSE [row |-> DefaultConfig, table |-> table \cup {DefaultConfig}]

\* float(config.<decimal field>)
decimal_to_float(hundredths) == Rat(hundredths, 100)

NoLocals == [keyword_score |-> R0, similarity_score |-> R0, confidence |-> R0]

\* What a grading function hands back: (marks_obtained, grading_details), or
\* an exception.  locals holds the unrounded keyword_score, similarity_score
\* and confidence of grade_short_answer at its return.
Returned(marks_obtained, grading_details, locals) ==
    [raised |-> FALSE, marks_obtained |-> marks_obtained,
     grading_details |-> grading_details, locals |-> locals]

Exception ==
    [raised |-> TRUE, marks_obtained |-> R0,
     grading_details |-> [error |-> "exception"], locals |-> NoLocals]

\* grade_mcq comparing without strip().
grade_mcq_unstripped(question_, student_answer_) ==
    LET correct_answer == get(question_.answer_key, "correct_answer", JStr(<<>>))
        details(is_correct) ==
            [question_type |-> "MCQ",
             correct_answer |-> correct_answer,
             student_answer |-> student_answer_,
             is_correct |-> is_correct]
    IN  IF correct_answer.t # "str" THEN Exception
        ELSE IF upper(student_answer_) = upper(correct_answer.v)
        THEN Returned(Rat(question_.marks, 1), details(TRUE), NoLocals)
        ELSE Returned(R0, details(FALSE), NoLocals)

grade_mcq(question_, student_answer_) ==
    LET correct_answer == get(question_.answer_key, "correct_answer", JStr(<<>>))
        details(is_correct) ==
            [question_type |-> "MCQ",
             correct_answer |-> correct_answer,
             student_answer |-> student_answer_,
             is_correct |-> is_correct]
    IN  IF correct_answer.t # "str" THEN Exception
        ELSE IF upper(strip(student_answer_)) = upper(strip(correct_answer.v))
        THEN Returned(Rat(question_.marks, 1), details(TRUE), NoLocals)
        ELSE Returned(R0, details(FALSE), NoLocals)

\* marks_band with > for >= on the partial threshold.
marks_band_strict(marks, confidence, config_) ==
    LET full_marks_threshold    == decimal_to_float(config_.full_marks_threshold)
        partial_marks_threshold == decimal_to_float(config_.partial_marks_threshold)
        partial_marks_pct       == decimal_to_float(config_.partial_marks_percentage)
    IN  IF RGe(confidence, full_marks_threshold)
        THEN [marks_obtained |-> Rat(marks, 1), marks_category |-> "full_marks"]
        ELSE IF RLt(partial_marks_threshold, confidence)
        THEN [marks_obtained |-> RMul(Rat(marks, 1), partial_marks_pct),
              marks_category |-> "partial_marks"]
        ELSE [marks_obtained |-> R0, marks_category |-> "no_marks"]

\* marks_band taking partial_marks_percentage as a percentage of 100 that it
\* adds to the marks instead of scaling them.
marks_band_bonus(marks, confidence, config_) ==
    LET full_marks_threshold    == decimal_to_float(config_.full_marks_threshold)
        partial_marks_threshold == decimal_to_float(config_.partial_marks_threshold)
        partial_marks_pct       == decimal_to_float(config_.partial_marks_percentage)
    IN  IF RGe(confidence, full_marks_threshold)
        THEN [marks_obtained |-> Rat(marks, 1), marks_category |-> "full_marks"]
        ELSE IF RGe(confidence, partial_marks_threshold)
        THEN [marks_obtained |-> RMul(Rat(marks, 1), RAdd(R1, partial_marks_pct)),
              marks_category |-> "partial_marks"]
        ELSE [marks_obtained |-> R0, marks_category |-> "no_marks"]

\* Lines 119-137: the marks band of a confidence.
marks_band(marks, confidence, config_) ==
    LET full_marks_threshold    == decimal_to_float(config_.full_marks_threshold)
        partial_marks_threshold == decimal_to_float(config_.partial_marks_threshold)
        partial_marks_pct       == decimal_to_float(config_.partial_marks_percentage)
    IN  IF RGe(confidence, full_marks_threshold)
        THEN [marks_obtained |-> Rat(marks, 1), marks_category |-> "full_marks"]
        ELSE IF RGe(confidence, partial_marks_threshold)
        THEN [marks_obtained |-> RMul(Rat(marks, 1), partial_marks_pct),
              marks_category |-> "partial_marks"]
        ELSE [marks_obtained |-> R0, marks_category |-> "no_marks"]

\* grade_short_answer with keyword matching and the Bayesian inference always on.
grade_short_answer_all_methods(question_, student_answer_, config_, order) ==
    LET answer_key      == question_.answer_key
        keywords        == get(answer_key, "keywords", JList(<<>>))
        weights         == get(answer_key, "weights", JMissing)
        expected_answer == get(answer_key, "expected_answer", JStr(<<>>))
        details(scores, confidence, marks_category) ==
            [question_type |-> "SHORT",
             expected_answer |-> expected_answer,
             student_answer |-> student_answer_,
             keywords |-> keywords,
             scores |-> scores,
             confidence |-> confidence,
             marks_category |-> marks_category]
    IN  IF student_answer_ = <<>> \/ strip(student_answer_) = <<>>
        THEN Returned(R0, details({}, R0, "no_answer"), NoLocals)
        ELSE
          LET use_kw  == truthy(keywords)
              use_sim == config_.use_similarity_scoring /\ truthy(expected_answer)
              award(keyword_score, similarity_score, confidence, band) ==
                  Returned(band.marks_obtained,
                           details((IF use_kw
                                    THEN {<<"keyword_score", Round4(keyword_score)>>}
                                    ELSE {})
                                   \cup
                                   (IF use_sim
                                    THEN {<<"similarity_score", Round4(similarity_score)>>}
                                    ELSE {}),
                                   Round4(confidence), band.marks_category),
                           [keyword_score |-> keyword_score,
                            similarity_score |-> similarity_score,
                            confidence |-> confidence])
              banded(keyword_score, similarity_score, confidence) ==
                  award(keyword_score, similarity_score, confidence,
                        marks_band(question_.marks, confidence, config_))
              fused(keyword_score, similarity_score) ==
                  banded(keyword_score, similarity_score,
                         bayesian_inference(keyword_score, similarity_score, DefaultPrior))
              scored(matched) ==
                  IF matched.raised THEN Exception
                  ELSE fused(matched.value,
                             IF use_sim
                             THEN calculate_cosine_similarity(student_answer_, expected_answer)
                             ELSE R0)
          IN  scored(IF use_kw
                     THEN calculate_keyword_match(student_answer_, keywords, weights, order)
                     ELSE Ok(R0))

\* grade_short_answer with a config that is not None; order is the iteration
\* order of the set of student words inside calculate_keyword_match.
grade_short_answer(question_, student_answer_, config_, order) ==
    LET answer_key      == question_.answer_key
        keywords        == get(answer_key, "keywords", JList(<<>>))
        weights         == get(answer_key, "weights", JMissing)
        expected_answer == get(answer_key, "expected_answer", JStr(<<>>))
        details(scores, confidence, marks_category) ==
            [question_type |-> "SHORT",
             expected_answer |-> expected_answer,
             student_answer |-> student_answer_,
             keywords |-> keywords,
             scores |-> scores,
             confidence |-> confidence,
             marks_category |-> marks_category]
    IN  IF student_answer_ = <<>> \/ strip(student_answer_) = <<>>
        THEN Returned(R0, details({}, R0, "no_answer"), NoLocals)
        ELSE
          LET use_kw  == config_.use_keyword_matching /\ truthy(keywords)
              use_sim == config_.use_similarity_scoring /\ truthy(expected_answer)
              award(keyword_score, similarity_score, confidence, band) ==
                  Returned(band.marks_obtained,
                           details((IF use_kw
                                    THEN {<<"keyword_score", Round4(keyword_score)>>}
                                    ELSE {})
                                   \cup
                                   (IF use_sim
                                    THEN {<<"similarity_score", Round4(similarity_score)>>}
                                    ELSE {}),
                                   Round4(confidence), band.marks_category),
                           [keyword_score |-> keyword_score,
                            similarity_score |-> similarity_score,
                            confidence |-> confidence])
              banded(keyword_score, similarity_score, confidence) ==
                  award(keyword_score, similarity_score, confidence,
                        marks_band(question_.marks, confidence, config_))
              fused(keyword_score, similarity_score) ==
                  banded(keyword_score, similarity_score,
                         IF config_.use_bayesian_inference
                         THEN bayesian_inference(keyword_score, similarity_score, DefaultPrior)
                         ELSE RDiv(RAdd(keyword_score, similarity_score), Rat(2, 1)))
              scored(matched) ==
                  IF matched.raised THEN Exception
                  ELSE fused(matched.value,
                             IF use_sim
                             THEN calculate_cosine_similarity(student_answer_, expected_answer)
                             ELSE R0)
          IN  scored(IF use_kw
                     THEN calculate_keyword_match(student_answer_, keywords, weights, order)
                     ELSE Ok(R0))

grade_long_answer(question_, student_answer_, config_, order) ==
    grade_short_answer(question_, student_answer_, config_, order)

\* grade_question raising ValueError for a question type it does not know.
grade_question_strict(question_, student_answer_, config_, table, order) ==
    IF question_.question_type = "MCQ"
    THEN [result |-> grade_mcq(question_, student_answer_), table |-> table]
    ELSE IF question_.question_type \in {"SHORT", "LONG"}
    THEN LET route(found) ==
                 [result |-> IF question_.question_type = "SHORT"
                             THEN grade_short_answer(question_, student_answer_, found.row, order)
                             ELSE grade_long_answer(question_, student_answer_, found.row, order),
                  table |-> found.table]
         IN  route(IF config_ = NoConfig THEN get_or_create_default(table)
                   ELSE [row |-> config_, table |-> table])
    ELSE [result |-> Exception, table |-> table]

\* grade_question: the routing, with the find-or-create of the Default config
\* (lines 67-75) that SHORT and LONG do when config is None.  table is the
\* ProbabilisticGradingConfig table; the result carries the table afterwards.
grade_question(question_, student_answer_, config_, table, order) ==
    IF question_.question_type = "MCQ"
    THEN [result |-> grade_mcq(question_, student_answer_), table |-> table]
    ELSE IF question_.question_type \in {"SHORT", "LONG"}
    THEN LET route(found) ==
                 [result |-> IF question_.question_type = "SHORT"
                             THEN grade_short_answer(question_, student_answer_, found.row, order)
                             ELSE grade_long_answer(question_, student_answer_, found.row, order),
                  table |-> found.table]
         IN  route(IF config_ = NoConfig THEN get_or_create_default(table)
                   ELSE [row |-> config_, table |-> table])
    ELSE [result |-> Returned(R0, [error |-> "Unknown question type"], NoLocals),
          table |-> table]

(***************************************************************************)
(* Inputs.                                                                 *)
(***************************************************************************)
MaxWords == 2

Vocab ==
    { <<"a">>, <<"A">>, <<"b">>, <<" ">>,
      <<"c", "a", "t">>, <<"C", "a", "t", ".">>, <<"c", "a", "t", "s">>,
      <<"c", "a", "s", "t", "s">>, <<"s", "a", "t">> }

\* The submitted texts: up to MaxWords words of Vocab, joined by single spaces.
Texts == {join(ws) : ws \in UNION {[1..n -> Vocab] : n \in 0..MaxWords}}

AnswerKey(correct_answer, keywords, weights, expected_answer) ==
    [correct_answer |-> correct_answer, keywords |-> keywords,
     weights |-> weights, expected_answer |-> expected_answer]

Question(id, exam, question_number, question_type, marks, answer_key) ==
    [id |-> id, exam |-> exam, subject |-> "math", question_number |-> question_number,
     question_type |-> question_type, marks |-> marks, answer_key |-> answer_key]

McqKey(correct_answer) == AnswerKey(correct_answer, JMissing, JMissing, JMissing)
TextKey(keywords, weights, expected_answer) ==
    AnswerKey(JMissing, keywords, weights, expected_answer)

w_cat   == <<"c", "a", "t">>
w_cats  == <<"c", "a", "t", "s">>
w_sat   == <<"s", "a", "t">>

\* The answer keys of multiple-choice questions: a str, absent, or a number.
McqKeys ==
    {McqKey(JStr(t)) : t \in {<<>>, <<"A">>, <<"a">>, <<" ", "b", " ">>, w_cat}}
    \cup {McqKey(JMissing), McqKey(JNum(2))}

\* The answer keys of free-text questions.
TextKeys ==
    { TextKey(JList(<<w_cat, w_sat>>), JMissing, JStr(w_cat \o <<" ">> \o w_sat)),
      TextKey(JList(<<w_cats>>), JList(<<1>>), JStr(<<"A", " ">> \o w_cat \o <<".">>)),
      TextKey(JList(<<w_sat>>), JMissing, JStr(w_cat)),
      TextKey(JList(<<w_cat, w_sat>>), JList(<<2, -1>>), JMissing),
      TextKey(JList(<<w_cat, w_sat>>), JList(<<1, -1>>), JStr(w_cat)),
      TextKey(JList(<<w_cat, w_sat>>), JList(<<3>>), JNum(7)),
      TextKey(JMissing, JMissing, JMissing),
      TextKey(JNum(5), JMissing, JStr(w_cat)),
      TextKey(JList(<<w_cat>>), JNum(1), JMissing) }

QuestionBank ==
    {Question(1, "e1", 1, "MCQ", 5, k) : k \in McqKeys}
    \cup {Question(2, "e1", 2, "SHORT", 10, k) : k \in TextKeys}
    \cup {Question(3, "e1", 3, "LONG", 5, k) : k \in {TextKey(JList(<<w_cat, w_sat>>), JMissing, JStr(w_cat \o <<" ">> \o w_sat)),
                                                TextKey(JMissing, JMissing, JMissing)}}
    \cup {Question(4, "e1", 4, "ESSAY", 5, McqKey(JStr(<<"A">>)))}

\* (full_marks_threshold, partial_marks_threshold, partial_marks_percentage)
\* in hundredths; the DecimalFields carry no range validator.
ThresholdTriples ==
    { <<70, 40, 70>>, <<60, 40, 50>>, <<60, 0, 100>>, <<70, 70, 150>>,
      <<40, 60, 70>>, <<100, 50, -50>> }

\* The config arguments: every triple with the three methods on, and every
\* combination of the toggles with one triple.
GradingConfigs ==
    {ConfigRow("Test Config", t[1], t[2], t[3], TRUE, TRUE, TRUE) : t \in ThresholdTriples}
    \cup
    {ConfigRow("Test Config", 60, 40, 50, kw, sim, bayes) :
        kw \in BOOLEAN, sim \in BOOLEAN, bayes \in BOOLEAN}

StoredDefault == ConfigRow("Default", 60, 40, 50, TRUE, FALSE, TRUE)

NotCalled == [called |-> FALSE]

NoResponse == [op |-> "none"]

NoCall == [fn |-> "none"]

(***************************************************************************)
(* SpecQuestion: grade_question applied to one question, one submission    *)
(* and one configuration.                                                  *)
(***************************************************************************)
InitQuestion ==
    /\ question \in QuestionBank
    /\ student_answer \in Texts
    /\ \/ config \in GradingConfigs /\ configs = {}
       \/ config = NoConfig /\ configs \in {{}, {StoredDefault}}
    /\ outcome = NotCalled
    /\ questions = {} /\ sheets = {} /\ results = {} /\ rules = {}
    /\ orm = "all_fields" /\ response = NoResponse
    /\ call = NoCall

GradeQuestion ==
    /\ outcome = NotCalled
    /\ \E order \in Orders(student_words_of(student_answer)) :
       \E r \in {grade_question(question, student_answer, config, configs, order)} :
         /\ outcome' = [called |-> TRUE, result |-> r.result]
         /\ configs' = r.table
    /\ UNCHANGED <<question, student_answer, config, call>>
    /\ UNCHANGED db_vars

NextQuestion == GradeQuestion

SpecQuestion == InitQuestion /\ [][NextQuestion]_vars

(***************************************************************************)
(* Claims on grade_question (SpecQuestion).                                *)
(***************************************************************************)
Graded == outcome # NotCalled /\ ~outcome.result.raised

FreeText == question.question_type \in {"SHORT", "LONG"}

Blank(s) == \A i \in DOMAIN s : s[i] \in Whitespace

\* The configuration the call graded with: the argument, or the Default row.
UsedConfig ==
    IF config = NoConfig THEN CHOOSE c \in configs : c.name = "Default" ELSE config

\* C1: a free-text question with a non-blank submission is banded by its
\* confidence: confidence >= fullMarksThreshold gives marksValue and
\* full_marks; otherwise confidence >= partialMarksThreshold gives marksValue
\* x partialMarksFraction and partial_marks; otherwise 0 and no_marks.
C1_BandingFollowsConfidence ==
    (Graded /\ FreeText /\ ~Blank(student_answer)) =>
        LET r    == outcome.result
            c    == r.locals.confidence
            full == c.n * 100 >= UsedConfig.full_marks_threshold * c.d
            part == c.n * 100 >= UsedConfig.partial_marks_threshold * c.d
            got  == r.marks_obtained
            cat  == r.grading_details.marks_category
        IN  /\ full => got = Rat(question.marks, 1) /\ cat = "full_marks"
            /\ (~full /\ part) =>
                  /\ got = Rat(question.marks * UsedConfig.partial_marks_percentage, 100)
                  /\ cat = "partial_marks"
            /\ (~full /\ ~part) => got = R0 /\ cat = "no_marks"

\* C1 witness: a confidence exactly on the partial threshold, below the full
\* threshold, was awarded partial marks.
C1_Witness ==
    /\ Graded /\ FreeText /\ ~Blank(student_answer)
    /\ outcome.result.locals.confidence = Rat(UsedConfig.partial_marks_threshold, 100)
    /\ UsedConfig.partial_marks_threshold < UsedConfig.full_marks_threshold
    /\ UsedConfig.partial_marks_threshold > 0
    /\ outcome.result.grading_details.marks_category = "partial_marks"

\* The text between the first and the last non-whitespace character.
Core(s) ==
    LET idx == {i \in DOMAIN s : s[i] \notin Whitespace}
    IN  IF idx = {} THEN <<>>
        ELSE SubSeq(s, CHOOSE i \in idx : \A j \in idx : i <= j,
                       CHOOSE i \in idx : \A j \in idx : i >= j)

SameLetter(x, y) ==
    \/ x = y
    \/ \E i \in DOMAIN LowerLetters : {x, y} = {LowerLetters[i], UpperLetters[i]}

EqualIgnoringCase(a, b) ==
    Len(a) = Len(b) /\ \A i \in DOMAIN a : SameLetter(a[i], b[i])

McqWithStrKey ==
    question.question_type = "MCQ" /\ question.answer_key.correct_answer.t = "str"

\* C2: a multiple-choice question is awarded marksValue exactly when the
\* submission equals correctAnswer after trimming surrounding whitespace and
\* ignoring letter case, and 0 in every other case; the outcome carries no
\* confidence and no keyword or similarity score.
C2_McqExactMatch ==
    (outcome # NotCalled /\ McqWithStrKey) =>
        LET r     == outcome.result
            equal == EqualIgnoringCase(Core(student_answer),
                                       Core(question.answer_key.correct_answer.v))
        IN  /\ ~r.raised
            /\ equal => r.marks_obtained = Rat(question.marks, 1)
                        /\ r.grading_details.is_correct
            /\ ~equal => r.marks_obtained = R0 /\ ~r.grading_details.is_correct
            /\ DOMAIN r.grading_details
                 = {"question_type", "correct_answer", "student_answer", "is_correct"}

\* C2 witness: a submission that differs from the key in letter case and in
\* surrounding whitespace was awarded the marks.
C2_Witness ==
    /\ outcome # NotCalled /\ McqWithStrKey
    /\ student_answer # question.answer_key.correct_answer.v
    /\ Core(student_answer) # student_answer
    /\ Core(student_answer) # Core(question.answer_key.correct_answer.v)
    /\ outcome.result.marks_obtained = Rat(question.marks, 1)

\* partialMarksFraction in [0, 1] (section 3 of the specification).
Admissible(c) == 0 <= c.partial_marks_percentage /\ c.partial_marks_percentage <= 100

\* C3: for every question, every submission and every admissible
\* configuration, marksObtained lies in [0, marksValue].
C3_MarksWithinRange ==
    (Graded /\ (FreeText => Admissible(UsedConfig))) =>
        LET got == outcome.result.marks_obtained
        IN  0 <= got.n /\ got.n <= question.marks * got.d

\* C3 witness: partial marks strictly between 0 and marksValue were awarded.
C3_Witness ==
    /\ Graded /\ FreeText /\ Admissible(UsedConfig)
    /\ outcome.result.grading_details.marks_category = "partial_marks"
    /\ 0 < outcome.result.marks_obtained.n
    /\ outcome.result.marks_obtained.n < question.marks * outcome.result.marks_obtained.d

InUnitInterval(x) == 0 <= x.n /\ x.n <= x.d

\* C4: the confidence and the keyword and similarity scores of
\* grade_short_answer are within [0, 1] for every submission, keyword list,
\* weight list and toggle setting.
C4_ScoresWithinUnitInterval ==
    (Graded /\ FreeText) =>
        /\ InUnitInterval(outcome.result.locals.keyword_score)
        /\ InUnitInterval(outcome.result.locals.similarity_score)
        /\ InUnitInterval(outcome.result.locals.confidence)
        /\ InUnitInterval(outcome.result.grading_details.confidence)
        /\ \A kv \in outcome.result.grading_details.scores : InUnitInterval(kv[2])

LacksKeyFields ==
    \/ question.question_type = "MCQ" /\ question.answer_key.correct_answer.t = "missing"
    \/ /\ FreeText
       /\ question.answer_key.keywords.t = "missing"
       /\ question.answer_key.expected_answer.t = "missing"

\* C10: a question whose answer key lacks its fields is graded without
\* raising and receives the zero score (for free text: keyword score,
\* similarity score and confidence 0, and no marks under positive
\* thresholds), for every submission including a blank one.
C10_MissingKeyScoresZero ==
    (outcome # NotCalled /\ LacksKeyFields) =>
        LET r == outcome.result
        IN  /\ ~r.raised
            /\ question.question_type = "MCQ" =>
                  r.marks_obtained = R0 /\ ~r.grading_details.is_correct
            /\ FreeText =>
                  /\ r.locals.confidence = R0
                  /\ r.grading_details.confidence = R0
                  /\ (UsedConfig.full_marks_threshold > 0
                      /\ UsedConfig.partial_marks_threshold > 0) => r.marks_obtained = R0

\* C11: a free-text question whose submission is empty or only whitespace
\* is graded 0 marks with category no_answer, whatever the keywords, the
\* expected answer and the configuration are, and no keyword or similarity
\* score is computed.
C11_BlankIsNoAnswer ==
    (outcome # NotCalled /\ FreeText /\ Blank(student_answer)) =>
        LET r == outcome.result
        IN  /\ ~r.raised
            /\ r.marks_obtained = R0
            /\ r.grading_details.marks_category = "no_answer"
            /\ r.grading_details.confidence = R0
            /\ r.grading_details.scores = {}
            /\ r.locals = NoLocals

\* C11 witness: a submission of whitespace only got no_answer on a question
\* with keywords and an expected answer, under a configuration with keyword
\* matching and similarity scoring on.
C11_Witness ==
    /\ outcome # NotCalled /\ FreeText
    /\ student_answer # <<>> /\ Blank(student_answer)
    /\ truthy(question.answer_key.keywords)
    /\ truthy(question.answer_key.expected_answer)
    /\ UsedConfig.use_keyword_matching /\ UsedConfig.use_similarity_scoring
    /\ outcome.result.grading_details.marks_category = "no_answer"
    /\ outcome.result.marks_obtained = R0

\* C22: grading a question creates or modifies no stored record, the
\* configuration table included, and leaves the question, the submission
\* and the configuration argument as they were.
C22_GradingTouchesNoStoredState ==
    [][(outcome = NotCalled /\ outcome' # NotCalled) =>
          /\ configs' = configs
          /\ question' = question /\ student_answer' = student_answer /\ config' = config
          /\ UNCHANGED <<questions, sheets, results, rules>>]_vars

\* C23: free-text grading without a config argument bands with the fixed
\* defaults 0.70 / 0.40 / 0.70 and all three toggles on, whatever rows the
\* configuration table holds.
C23_NoConfigUsesFixedDefaults ==
    (Graded /\ FreeText /\ config = NoConfig) =>
        \E order \in Orders(student_words_of(student_answer)) :
            outcome.result = grade_short_answer(question, student_answer,
                                                DefaultConfig, order)

\* The answer key entries grade_short_answer reads (lines 78-81).
KeywordsOf(q)       == get(q.answer_key, "keywords", JList(<<>>))
WeightsOf(q)        == get(q.answer_key, "weights", JMissing)
ExpectedAnswerOf(q) == get(q.answer_key, "expected_answer", JStr(<<>>))

\* C27: in free-text grading of a non-blank submission the keyword score is
\* calculate_keyword_match(...) only if use_keyword_matching is on and the
\* keywords are present, else 0; the similarity score is
\* calculate_cosine_similarity(...) only if use_similarity_scoring is on and
\* the expected answer is present, else 0; the confidence is
\* bayesian_inference of the two when use_bayesian_inference is on and their
\* average when it is off.
C27_TogglesSelectScores ==
    (Graded /\ FreeText /\ ~Blank(student_answer)) =>
        LET scores == outcome.result.locals
        IN  /\ IF UsedConfig.use_keyword_matching /\ truthy(KeywordsOf(question))
               THEN \E order \in Orders(student_words_of(student_answer)) :
                       scores.keyword_score =
                           calculate_keyword_match(student_answer, KeywordsOf(question),
                                                   WeightsOf(question), order).value
               ELSE scores.keyword_score = R0
            /\ scores.similarity_score =
                   IF UsedConfig.use_similarity_scoring /\ truthy(ExpectedAnswerOf(question))
                   THEN calculate_cosine_similarity(student_answer, ExpectedAnswerOf(question))
                   ELSE R0
            /\ scores.confidence =
                   IF UsedConfig.use_bayesian_inference
                   THEN bayesian_inference(scores.keyword_score, scores.similarity_score,
                                           DefaultPrior)
                   ELSE RDiv(RAdd(scores.keyword_score, scores.similarity_score), Rat(2, 1))

\* C27 witness: keyword matching and the Bayesian inference are off, the
\* question has keywords the answer matches, and the call graded with a
\* keyword score of 0 and half the similarity score as confidence.
C27_Witness ==
    /\ Graded /\ FreeText /\ ~Blank(student_answer)
    /\ config # NoConfig
    /\ ~config.use_keyword_matching /\ config.use_similarity_scoring
    /\ ~config.use_bayesian_inference
    /\ KeywordsOf(question) = JList(<<w_cat, w_sat>>)
    /\ student_answer = w_cat
    /\ outcome.result.locals.keyword_score = R0
    /\ outcome.result.locals.similarity_score # R0
    /\ outcome.result.locals.confidence =
           RDiv(outcome.result.locals.similarity_score, Rat(2, 1))


(***************************************************************************)
(* grading/models.py, students/models.py: the stored tables.              *)
(***************************************************************************)
\* None, in a field that holds a Decimal.
None == [n |-> 0, d |-> 0]

\* Decimal.quantize to two places, ties to even: what a
\* DecimalField(decimal_places=2) stores of a value.
Quantize2(x) ==
    IF x = None THEN None
    ELSE LET nearest(q, r) ==
                 IF (2 * r > x.d) \/ (2 * r = x.d /\ q % 2 = 1) THEN q + 1 ELSE q
             signed(m) == Rat(IF x.n < 0 THEN -m ELSE m, 100)
         IN  signed(nearest((Abs(x.n) * 100) \div x.d, (Abs(x.n) * 100) % x.d))

Students == {"s1", "s2"}

\* Subject rows: full_marks and pass_marks, both validated >= 1 on entry.
Subjects == {[name |-> "math", full_marks |-> 15, pass_marks |-> 6]}

SubjectRow(name) == CHOOSE s \in Subjects : s.name = name

\* Exam e1 is the exam of the class of s1 and s2; e2 belongs to another class.
Exams == {"e1", "e2"}

GradingRule(grade, min_percentage, max_percentage, gpa) ==
    [grade |-> grade, min_percentage |-> Rat(min_percentage, 100),
     max_percentage |-> Rat(max_percentage, 100), gpa |-> Rat(gpa, 100)]

\* seed_grading_rules.py: the nine bands, in hundredths.
SeededRules ==
    { GradingRule("A+", 9000, 10000, 400), GradingRule("A", 8000, 8999, 360),
      GradingRule("B+", 7000, 7999, 320),  GradingRule("B", 6000, 6999, 280),
      GradingRule("C+", 5000, 5999, 240),  GradingRule("C", 4000, 4999, 200),
      GradingRule("D", 3200, 3999, 160),   GradingRule("E", 2000, 3199, 80),
      GradingRule("NG", 0, 1999, 0) }

\* The value a DecimalField lookup compares with: the later ORM quantizes it
\* to the field's two places, the earlier one passes it as it is.
lookup_value(percentage, orm_) ==
    IF orm_ = "update_fields" THEN Quantize2(percentage) ELSE percentage

\* get_grade_for_percentage under an ascending ordering: the matching rule
\* with the least min_percentage.
get_grade_for_percentage_ascending(table, percentage, orm_) ==
    LET first(matching) ==
            IF matching = {} THEN {}
            ELSE {CHOOSE r \in matching :
                    \A o \in matching : RLe(r.min_percentage, o.min_percentage)}
        filter(v) ==
            first({r \in table : RLe(r.min_percentage, v) /\ RGe(r.max_percentage, v)})
    IN  filter(lookup_value(percentage, orm_))

\* GradingRule.get_grade_for_percentage: the first matching rule under the
\* Meta ordering -min_percentage, as a set of at most one rule.
get_grade_for_percentage(table, percentage, orm_) ==
    LET first(matching) ==
            IF matching = {} THEN {}
            ELSE {CHOOSE r \in matching :
                    \A o \in matching : RLe(o.min_percentage, r.min_percentage)}
        filter(v) ==
            first({r \in table : RLe(r.min_percentage, v) /\ RGe(r.max_percentage, v)})
    IN  filter(lookup_value(percentage, orm_))

\* Result.save up to the call of super().save: the fields it recomputes.
Result_save(self, table, orm_) ==
    LET assign(subject, percentage, found) ==
            [self EXCEPT
                !.percentage = percentage,
                !.grade = IF found # {} THEN (CHOOSE r \in found : TRUE).grade ELSE @,
                !.gpa = IF found # {} THEN (CHOOSE r \in found : TRUE).gpa ELSE @,
                !.is_pass = RGe(self.marks_obtained, Rat(subject.pass_marks, 1))]
        classify(subject, percentage) ==
            assign(subject, percentage, get_grade_for_percentage(table, percentage, orm_))
        compute(subject) ==
            classify(subject,
                     IF subject.full_marks > 0
                     THEN RMul(RDiv(self.marks_obtained, Rat(subject.full_marks, 1)),
                               Rat(100, 1))
                     ELSE self.percentage)
    IN  compute(SubjectRow(self.subject))

\* The row the database holds of an instance: decimals at two places.
stored_row(self) ==
    [self EXCEPT !.marks_obtained = Quantize2(@), !.percentage = Quantize2(@),
                 !.gpa = Quantize2(@)]

\* The NOT NULL columns of Result.
not_null(self) == self.percentage # None /\ self.gpa # None

\* Meta.unique_together = ['student', 'exam', 'subject'].
unique_together(table, self) ==
    \A r \in table :
        r.id # self.id =>
            ~(r.student = self.student /\ r.exam = self.exam /\ r.subject = self.subject)

\* Result.objects.create(student=, exam=, subject=, marks_obtained=marks) in
\* the place of update_or_create.
create_result(table, student, exam, subject, marks, rule_table, orm_) ==
    LET fresh == [id |-> Cardinality(table) + 1, student |-> student, exam |-> exam,
                  subject |-> subject, marks_obtained |-> marks, percentage |-> None,
                  grade |-> "", gpa |-> None, is_pass |-> FALSE]
        create(obj) ==
            IF not_null(obj) /\ unique_together(table, obj)
            THEN [raised |-> FALSE, obj |-> obj, created |-> TRUE,
                  table |-> table \cup {stored_row(obj)}]
            ELSE [raised |-> TRUE, obj |-> obj, created |-> FALSE, table |-> table]
    IN  create(Result_save(fresh, rule_table, orm_))

\* Result.objects.update_or_create(student=, exam=, subject=,
\* defaults={'marks_obtained': marks}).  The row found is saved with the new
\* marks: every column by the earlier ORM, only the columns of defaults by
\* the one that passes update_fields to save().  No row found: a new
\* instance is saved, which the database refuses when a NOT NULL column is
\* None or the key is taken.
update_or_create(table, student, exam, subject, marks, rule_table, orm_) ==
    LET fresh == [id |-> Cardinality(table) + 1, student |-> student, exam |-> exam,
                  subject |-> subject, marks_obtained |-> marks, percentage |-> None,
                  grade |-> "", gpa |-> None, is_pass |-> FALSE]
        update(row, obj) ==
            [raised |-> FALSE, obj |-> obj, created |-> FALSE,
             table |-> (table \ {row}) \cup
                       {IF orm_ = "update_fields"
                        THEN [row EXCEPT !.marks_obtained = Quantize2(marks)]
                        ELSE stored_row(obj)}]
        create(obj) ==
            IF not_null(obj) /\ unique_together(table, obj)
            THEN [raised |-> FALSE, obj |-> obj, created |-> TRUE,
                  table |-> table \cup {stored_row(obj)}]
            ELSE [raised |-> TRUE, obj |-> obj, created |-> FALSE, table |-> table]
        found(row) ==
            update(row, Result_save([row EXCEPT !.marks_obtained = marks], rule_table, orm_))
        lookup(existing) ==
            IF existing # {} THEN found(CHOOSE r \in existing : TRUE)
            ELSE create(Result_save(fresh, rule_table, orm_))
    IN  lookup({r \in table : r.student = student /\ r.exam = exam /\ r.subject = subject})

\* result.save() on an instance that has a row: every column is written.
save_result(table, self, rule_table, orm_) ==
    LET write(obj) ==
            IF not_null(obj) /\ unique_together(table, obj)
            THEN [raised |-> FALSE, obj |-> obj,
                  table |-> {r \in table : r.id # obj.id} \cup {stored_row(obj)}]
            ELSE [raised |-> TRUE, obj |-> obj, table |-> table]
    IN  write(Result_save(self, rule_table, orm_))


(***************************************************************************)
(* grading_engine.py: grade_answer_sheet.                                  *)
(***************************************************************************)
\* dict.get on submitted_answers, a set of <<str(question id), text>> pairs.
answer_of(submitted_answers, id) ==
    IF \E a \in submitted_answers : a[1] = id
    THEN (CHOOSE a \in submitted_answers : a[1] = id)[2]
    ELSE <<>>

\* Question.objects.filter(exam=, subject=).order_by('question_number');
\* (exam, subject, question_number) is unique.
RECURSIVE order_by_question_number(_)
order_by_question_number(S) ==
    IF S = {} THEN <<>>
    ELSE LET first == CHOOSE q \in S : \A o \in S : q.question_number <= o.question_number
         IN  <<first>> \o order_by_question_number(S \ {first})

\* questions_of filtering on the subject alone.
questions_of_subject(table, exam, subject) ==
    order_by_question_number({q \in table : q.subject = subject})

questions_of(table, exam, subject) ==
    order_by_question_number({q \in table : q.exam = exam /\ q.subject = subject})

\* Lines 214-230: the loop over the questions.  acc carries the running
\* totals, the outcomes so far and the config table; an exception of
\* grade_question leaves the loop at that question.
RECURSIVE grade_loop(_, _, _, _, _)
grade_loop(qs, answer_sheet, config_, orders, acc) ==
    IF qs = <<>> THEN acc
    ELSE LET iteration(q, r) ==
                 IF r.result.raised
                 THEN [acc EXCEPT !.raised = TRUE, !.failed_question = q.id,
                                  !.table = r.table]
                 ELSE grade_loop(Tail(qs), answer_sheet, config_, orders,
                        [acc EXCEPT
                           !.total_marks = RAdd(@, r.result.marks_obtained),
                           !.full_marks = @ + q.marks,
                           !.grading_results = Append(@,
                               [question_id |-> q.id,
                                question_number |-> q.question_number,
                                marks_obtained |-> r.result.marks_obtained,
                                full_marks |-> q.marks,
                                grading_details |-> r.result.grading_details]),
                           !.table = r.table])
         IN  iteration(Head(qs),
                       grade_question(Head(qs),
                                      answer_of(answer_sheet.submitted_answers, Head(qs).id),
                                      config_, acc.table, orders[Head(qs).id]))

NoReturn == [returned |-> FALSE]

\* grade_answer_sheet marking the sheet as graded before the Result is stored.
grade_answer_sheet_marking_first(answer_sheet, config_, tables, orders) ==
    LET failed(graded) ==
            [raised |-> TRUE, failed_question |-> graded.failed_question,
             created |-> FALSE, ret |-> NoReturn, configs |-> graded.table,
             results |-> tables.results,
             sheets |-> (tables.sheets \ {answer_sheet}) \cup
                        {[answer_sheet EXCEPT !.is_graded = TRUE, !.graded_at = "now"]}]
        finish(graded, percentage, upsert) ==
            IF upsert.raised THEN failed(graded)
            ELSE [raised |-> FALSE, failed_question |-> 0,
                  created |-> upsert.created,
                  ret |-> [returned |-> TRUE,
                           result_id |-> upsert.obj.id,
                           total_marks_obtained |-> graded.total_marks,
                           full_marks |-> graded.full_marks,
                           percentage |-> percentage,
                           grade |-> upsert.obj.grade,
                           gpa |-> upsert.obj.gpa,
                           is_pass |-> upsert.obj.is_pass,
                           grading_details |-> graded.grading_results],
                  configs |-> graded.table,
                  results |-> upsert.table,
                  sheets |-> (tables.sheets \ {answer_sheet}) \cup
                             {[answer_sheet EXCEPT !.is_graded = TRUE,
                                                   !.graded_at = "now"]}]
        store(graded) ==
            IF graded.raised THEN failed(graded)
            ELSE finish(graded,
                        IF graded.full_marks > 0
                        THEN RMul(RDiv(graded.total_marks, Rat(graded.full_marks, 1)),
                                  Rat(100, 1))
                        ELSE R0,
                        update_or_create(tables.results, answer_sheet.student,
                                         answer_sheet.exam, answer_sheet.subject,
                                         graded.total_marks, tables.rules, tables.orm))
    IN  store(grade_loop(questions_of(tables.questions, answer_sheet.exam,
                                      answer_sheet.subject),
                         answer_sheet, config_, orders,
                         [raised |-> FALSE, failed_question |-> 0, total_marks |-> R0,
                          full_marks |-> 0, grading_results |-> <<>>,
                          table |-> tables.configs]))

\* grade_answer_sheet(answer_sheet, config) against the tables db; the value
\* carries what it returned and the tables afterwards.
grade_answer_sheet(answer_sheet, config_, tables, orders) ==
    LET failed(graded) ==
            [raised |-> TRUE, failed_question |-> graded.failed_question,
             created |-> FALSE, ret |-> NoReturn, configs |-> graded.table,
             results |-> tables.results, sheets |-> tables.sheets]
        finish(graded, percentage, upsert) ==
            IF upsert.raised THEN failed(graded)
            ELSE [raised |-> FALSE, failed_question |-> 0,
                  created |-> upsert.created,
                  ret |-> [returned |-> TRUE,
                           result_id |-> upsert.obj.id,
                           total_marks_obtained |-> graded.total_marks,
                           full_marks |-> graded.full_marks,
                           percentage |-> percentage,
                           grade |-> upsert.obj.grade,
                           gpa |-> upsert.obj.gpa,
                           is_pass |-> upsert.obj.is_pass,
                           grading_details |-> graded.grading_results],
                  configs |-> graded.table,
                  results |-> upsert.table,
                  sheets |-> (tables.sheets \ {answer_sheet}) \cup
                             {[answer_sheet EXCEPT !.is_graded = TRUE,
                                                   !.graded_at = "now"]}]
        store(graded) ==
            IF graded.raised THEN failed(graded)
            ELSE finish(graded,
                        IF graded.full_marks > 0
                        THEN RMul(RDiv(graded.total_marks, Rat(graded.full_marks, 1)),
                                  Rat(100, 1))
                        ELSE R0,
                        update_or_create(tables.results, answer_sheet.student,
                                         answer_sheet.exam, answer_sheet.subject,
                                         graded.total_marks, tables.rules, tables.orm))
    IN  store(grade_loop(questions_of(tables.questions, answer_sheet.exam,
                                      answer_sheet.subject),
                         answer_sheet, config_, orders,
                         [raised |-> FALSE, failed_question |-> 0, total_marks |-> R0,
                          full_marks |-> 0, grading_results |-> <<>>,
                          table |-> tables.configs]))

(***************************************************************************)
(* Decimal(mark_value): the decimal numerals of a mark entry.              *)
(***************************************************************************)
Digits == <<"0", "1", "2", "3", "4", "5", "6", "7", "8", "9">>

IsDigit(ch) == \E k \in DOMAIN Digits : Digits[k] = ch

DigitValue(ch) == (CHOOSE k \in DOMAIN Digits : Digits[k] = ch) - 1

RECURSIVE digits_value(_)
digits_value(s) ==
    IF s = <<>> THEN 0
    ELSE 10 * digits_value(SubSeq(s, 1, Len(s) - 1)) + DigitValue(s[Len(s)])

RECURSIVE pow10(_)
pow10(k) == IF k = 0 THEN 1 ELSE 10 * pow10(k - 1)

\* Decimal(text): surrounding whitespace is dropped, then an optional sign,
\* digits and at most one point; anything else raises InvalidOperation.
Decimal(text) ==
    LET number(negative, unsigned, points, mantissa) ==
            IF /\ mantissa # <<>>
               /\ Cardinality(points) <= 1
               /\ \A i \in DOMAIN mantissa : IsDigit(mantissa[i])
            THEN Ok(Rat(IF negative THEN -digits_value(mantissa)
                        ELSE digits_value(mantissa),
                        pow10(IF points = {} THEN 0
                              ELSE Len(unsigned) - (CHOOSE i \in points : TRUE))))
            ELSE Raised
        digits(negative, unsigned) ==
            number(negative, unsigned,
                   {i \in DOMAIN unsigned : unsigned[i] = "."},
                   SelectSeq(unsigned, LAMBDA ch : ch # "."))
        sign(t) ==
            digits(t # <<>> /\ t[1] = "-",
                   IF t # <<>> /\ t[1] \in {"-", "+"} THEN Tail(t) ELSE t)
    IN  sign(strip(text))

(***************************************************************************)
(* grading/views.py                                                        *)
(***************************************************************************)
\* exam.student_class.students.all() and exam.subjects.all() of exam e1, in
\* their Meta ordering.
students_of_exam == <<"s1", "s2">>
subjects_of_exam == <<"math">>

\* Lines 107-125 for one student and one subject: the entry of the POST is
\* parsed and upserted, the result saved again; any exception is swallowed
\* and leaves the table as the failing statement left it.
bulk_entry_one(table, student, subject, mark_value, rule_table, orm_) ==
    IF mark_value = <<>> \/ strip(mark_value) = <<>> THEN table
    ELSE LET resave(upsert, saved) ==
                 IF saved.raised THEN upsert.table ELSE saved.table
             upserted(upsert) ==
                 IF upsert.raised THEN table
                 ELSE resave(upsert,
                             save_result(upsert.table, upsert.obj, rule_table, orm_))
             parsed(marks) ==
                 IF marks.raised THEN table
                 ELSE upserted(update_or_create(table, student, "e1", subject,
                                                marks.value, rule_table, orm_))
         IN  parsed(Decimal(mark_value))

\* The loops without the try / except around an entry: the first entry that
\* cannot be parsed ends the request, the later entries are not applied.
RECURSIVE bulk_entry_loop_unguarded(_, _, _, _)
bulk_entry_loop_unguarded(todo, table, post, tables) ==
    IF todo = <<>> THEN table
    ELSE LET student == Head(todo)[1]
             subject == Head(todo)[2]
             value   == post[student][subject]
         IN  IF value # <<>> /\ strip(value) # <<>> /\ Decimal(value).raised
             THEN table
             ELSE bulk_entry_loop_unguarded(Tail(todo),
                      bulk_entry_one(table, student, subject, value,
                                     tables.rules, tables.orm),
                      post, tables)

\* Lines 104-105: the loops, over the pairs still to do.
RECURSIVE bulk_entry_loop(_, _, _, _)
bulk_entry_loop(todo, table, post, tables) ==
    IF todo = <<>> THEN table
    ELSE LET student == Head(todo)[1]
             subject == Head(todo)[2]
         IN  bulk_entry_loop(Tail(todo),
                 bulk_entry_one(table, student, subject, post[student][subject],
                                tables.rules, tables.orm),
                 post, tables)

student_subject_pairs ==
    LET n == Len(subjects_of_exam)
    IN  [k \in 1..(Len(students_of_exam) * n) |->
            <<students_of_exam[((k - 1) \div n) + 1], subjects_of_exam[((k - 1) % n) + 1]>>]

BulkMarkEntryView_post(post, tables) ==
    bulk_entry_loop(student_subject_pairs, tables.results, post, tables)


(***************************************************************************)
(* Spec: the stored tables under the request handlers.                     *)
(***************************************************************************)
k_cat_sat == TextKey(JList(<<w_cat, w_sat>>), JMissing, JStr(w_cat \o <<" ">> \o w_sat))

\* The question tables: for exam e1 a paper whose rows were entered out of
\* question_number order, one with a question of an unknown type first, one
\* with a multiple-choice key that is a number, one with keys left empty, one
\* whose keyword two words of an answer can resemble, and none at all; a
\* question of exam e2 is in every table.
Papers ==
    LET other == Question(9, "e2", 1, "MCQ", 5, McqKey(JStr(<<"A">>)))
    IN  { {other,
           Question(1, "e1", 2, "MCQ", 5, McqKey(JStr(<<"A">>))),
           Question(2, "e1", 1, "SHORT", 10, k_cat_sat)},
          {other,
           Question(1, "e1", 2, "MCQ", 5, McqKey(JStr(<<"A">>))),
           Question(2, "e1", 1, "ESSAY", 5, McqKey(JStr(<<"A">>)))},
          {other,
           Question(1, "e1", 1, "MCQ", 5, McqKey(JNum(2))),
           Question(2, "e1", 2, "MCQ", 5, McqKey(JStr(<<"A">>)))},
          {other,
           Question(1, "e1", 1, "MCQ", 5, McqKey(JMissing)),
           Question(2, "e1", 2, "LONG", 5, TextKey(JMissing, JMissing, JMissing))},
          {other,
           Question(1, "e1", 1, "SHORT", 10, TextKey(JList(<<w_cats>>), JMissing, JMissing))},
          {other} }

\* The answers a student posts: question id -> text.
SubmittedAnswers ==
    { {},
      {<<1, <<"a", " ">>>>, <<2, w_cat>>},
      {<<1, w_cat>>, <<9, <<"A">>>>},
      {<<1, <<"c", "a", "s", "t", "s", " ", "c", "a", "t">>>>} }

\* The students who sit the paper; the marks of the others are entered in bulk.
Candidates == {"s1"}

\* The mark entries of a bulk POST.
MarkValues ==
    { <<>>, <<"8", ".", "5">>, <<"2", "0">>, <<"a", "b", "c">> }

Orm == {"all_fields", "update_fields"}

Init ==
    /\ questions \in Papers
    /\ orm \in Orm
    /\ sheets = {} /\ results = {} /\ rules = {} /\ configs = {}
    /\ response = NoResponse
    /\ question = Question(0, "e1", 0, "MCQ", 1, McqKey(JMissing))
    /\ student_answer = <<>> /\ config = NoConfig /\ outcome = NotCalled
    /\ call = NoCall

db == [questions |-> questions, sheets |-> sheets, results |-> results,
       rules |-> rules, configs |-> configs, orm |-> orm]

\* manage.py seed_grading_rules
SeedGradingRules ==
    /\ rules # SeededRules
    /\ rules' = SeededRules
    /\ UNCHANGED <<questions, sheets, results, configs, orm, response>>
    /\ UNCHANGED call_vars

\* AnswerSheetCreateView.form_valid: one sheet per (student, exam, subject).
SubmitAnswerSheet ==
    /\ \E student \in Candidates, answers \in SubmittedAnswers :
         /\ ~\E a \in sheets : a.student = student /\ a.exam = "e1" /\ a.subject = "math"
         /\ sheets' = sheets \cup
                {[id |-> Cardinality(sheets) + 1, student |-> student, exam |-> "e1",
                  subject |-> "math", submitted_answers |-> answers,
                  is_graded |-> FALSE, graded_at |-> "None"]}
    /\ response' = [op |-> "submit"]
    /\ UNCHANGED <<questions, results, rules, configs, orm>>
    /\ UNCHANGED call_vars

\* The iteration orders of the word sets of the answers of a sheet.
OrdersOf(answer_sheet) ==
    LET ids == {q.id : q \in questions}
    IN  {f \in [ids -> UNION {Orders(student_words_of(
                                  answer_of(answer_sheet.submitted_answers, i))) : i \in ids}] :
            \A i \in ids :
                f[i] \in Orders(student_words_of(
                            answer_of(answer_sheet.submitted_answers, i)))}

\* AutoGradeView.get
AutoGrade ==
    /\ \E answer_sheet \in sheets :
       \E orders \in OrdersOf(answer_sheet) :
       \E config_ \in IF \E c \in configs : c.name = "Default"
                      THEN {c \in configs : c.name = "Default"} ELSE {NoConfig} :
       \E r \in {grade_answer_sheet(answer_sheet, config_, db, orders)} :
         /\ configs' = r.configs
         /\ results' = r.results
         /\ sheets' = r.sheets
         /\ response' = [op |-> "auto_grade", answer_sheet |-> answer_sheet.id,
                         raised |-> r.raised, failed_question |-> r.failed_question,
                         created |-> r.created, ret |-> r.ret]
    /\ UNCHANGED <<questions, rules, orm>>
    /\ UNCHANGED call_vars

\* BulkMarkEntryView.post for exam e1
BulkMarkEntry ==
    /\ \E post \in [Students -> [{"math"} -> MarkValues]] :
         results' = BulkMarkEntryView_post(post, db)
    /\ response' = [op |-> "bulk_entry"]
    /\ UNCHANGED <<questions, sheets, rules, configs, orm>>
    /\ UNCHANGED call_vars

Next == SeedGradingRules \/ SubmitAnswerSheet \/ AutoGrade \/ BulkMarkEntry

Spec == Init /\ [][Next]_vars


(***************************************************************************)
(* Claims on the request handlers (Spec).                                  *)
(***************************************************************************)
AutoGraded == response.op = "auto_grade"

SheetReturned == AutoGraded /\ response.ret.returned

\* The sheet of the last AutoGrade request and the questions in its scope.
GradedSheet == CHOOSE a \in sheets : a.id = response.answer_sheet

OwnQuestions ==
    {q \in questions : q.exam = GradedSheet.exam /\ q.subject = GradedSheet.subject}

Outcomes == response.ret.grading_details

RECURSIVE SumMarks(_)
SumMarks(S) ==
    IF S = {} THEN 0
    ELSE LET q == CHOOSE x \in S : TRUE IN q.marks + SumMarks(S \ {q})

\* C5: grade_answer_sheet returns one outcome per question of the sheet's
\* exam and subject, in ascending question_number order; the total is the sum
\* of the outcomes' marks, the full marks the sum of the questions' marks and
\* the percentage total / full x 100, or 0 when the full marks are 0.
C5_SheetOutcomesAndTotals ==
    SheetReturned =>
        LET ret == response.ret
        IN  /\ Len(Outcomes) = Cardinality(OwnQuestions)
            /\ \A q \in OwnQuestions :
                 \E i \in DOMAIN Outcomes :
                    /\ Outcomes[i].question_id = q.id
                    /\ Outcomes[i].question_number = q.question_number
                    /\ Outcomes[i].full_marks = q.marks
            /\ \A i, j \in DOMAIN Outcomes :
                 i < j => Outcomes[i].question_number < Outcomes[j].question_number
            /\ ret.total_marks_obtained =
                 RSum([i \in DOMAIN Outcomes |-> Outcomes[i].marks_obtained])
            /\ ret.full_marks = SumMarks(OwnQuestions)
            /\ IF ret.full_marks = 0 THEN ret.percentage = R0
               ELSE ret.percentage.n * ret.full_marks * ret.total_marks_obtained.d
                      = 100 * ret.total_marks_obtained.n * ret.percentage.d

\* A sheet graded on the paper entered out of order: 5 of 5 and 7 of 10 give
\* 12 of 15 and 80 percent, with a question of another exam in the table.
C5_Witness ==
    /\ SheetReturned
    /\ Len(Outcomes) = 2
    /\ Outcomes[1].question_id > Outcomes[2].question_id
    /\ response.ret.total_marks_obtained = Rat(12, 1)
    /\ response.ret.full_marks = 15
    /\ response.ret.percentage = Rat(80, 1)
    /\ \E q \in questions : q \notin OwnQuestions

KeyRows(student, exam, subject) ==
    {r \in results : r.student = student /\ r.exam = exam /\ r.subject = subject}

\* C6: the stored grade and GPA of every Result are the ones the grading
\* rules give for the percentage of its stored marks, and the record is
\* ungraded when no band matches.
C6_StoredGradeMatchesMarks ==
    \A r \in results :
        LET percentage == RMul(RDiv(r.marks_obtained,
                                    Rat(SubjectRow(r.subject).full_marks, 1)),
                               Rat(100, 1))
            band == get_grade_for_percentage(rules, percentage, orm)
        IN  IF band = {} THEN r.grade = ""
            ELSE \A b \in band : r.grade = b.grade /\ r.gpa = b.gpa

\* C7: there is at most one Result per (student, exam, subject), and grading
\* a sheet whose key has a Result overwrites that Result: the request
\* returns its id and the row holds the new total.
C7_OneResultPerKey ==
    /\ \A r1, r2 \in results :
         (r1.student = r2.student /\ r1.exam = r2.exam /\ r1.subject = r2.subject)
            => r1 = r2
    /\ (AutoGraded /\ response.failed_question = 0) =>
         LET rows == KeyRows(GradedSheet.student, GradedSheet.exam, GradedSheet.subject)
         IN  IF rows = {} THEN response.raised
             ELSE /\ response.ret.returned
                  /\ \A r \in rows :
                        /\ r.id = response.ret.result_id
                        /\ r.marks_obtained = Quantize2(response.ret.total_marks_obtained)

\* A sheet graded onto the Result that a bulk entry of 8.5 had created, next
\* to the Result of another student.
C7_Witness ==
    /\ SheetReturned
    /\ ~response.created
    /\ Cardinality(results) = 2
    /\ \E r \in results :
         /\ r.student = GradedSheet.student
         /\ r.id = response.ret.result_id
         /\ r.marks_obtained = Rat(12, 1)

\* C8: a failure while scoring one question does not keep the others from
\* being scored: the call still returns the outcomes of all other questions
\* and a total built from them.
C8_QuestionFailureIsolated ==
    (AutoGraded /\ response.failed_question # 0) =>
        /\ response.ret.returned
        /\ {Outcomes[i].question_id : i \in DOMAIN Outcomes}
             = {q.id : q \in OwnQuestions} \ {response.failed_question}
        /\ response.ret.total_marks_obtained =
             RSum([i \in DOMAIN Outcomes |-> Outcomes[i].marks_obtained])

UnknownType(q) == q.question_type \notin {"MCQ", "SHORT", "LONG"}

\* C9: a question whose type is none of MCQ, SHORT, LONG never fails the
\* grading; its outcome has 0 marks and the unknown-type record, and the
\* other questions of the sheet have their outcomes.
C9_UnknownTypeScoresZero ==
    AutoGraded =>
        /\ \A q \in OwnQuestions : UnknownType(q) => response.failed_question # q.id
        /\ response.ret.returned =>
             \A q \in OwnQuestions :
                \E i \in DOMAIN Outcomes :
                   /\ Outcomes[i].question_id = q.id
                   /\ UnknownType(q) =>
                        /\ Outcomes[i].marks_obtained = R0
                        /\ Outcomes[i].grading_details = [error |-> "Unknown question type"]

\* A returned sheet whose first question is of an unknown type and whose
\* second question earned its marks.
C9_Witness ==
    /\ SheetReturned
    /\ Len(Outcomes) = 2
    /\ \E q \in OwnQuestions : UnknownType(q) /\ q.id = Outcomes[1].question_id
    /\ Outcomes[1].marks_obtained = R0
    /\ Outcomes[2].marks_obtained = Rat(5, 1)


\* Two consecutive requests graded the same sheet and both returned; the
\* questions, the submission, the Default configuration's values and the
\* seeded scale are the same for both.
GradedAgain ==
    /\ response.op = "auto_grade" /\ response'.op = "auto_grade"
    /\ response'.answer_sheet = response.answer_sheet
    /\ response.ret.returned /\ response'.ret.returned
    /\ rules' = rules /\ questions' = questions /\ configs' = configs

\* C20: grading the same sheet a second time with the same questions,
\* submission, configuration and scale returns the same result dict as the
\* first time and leaves the stored Result rows as the first grading left
\* them.
C20_RegradingIsIdempotent ==
    [][GradedAgain => (response'.ret = response.ret /\ results' = results)]_vars


\* C28: the grade and GPA grade_answer_sheet returns are those of the rule
\* get_grade_for_percentage finds for the percentage it returns (the total
\* marks over the sum of the questions' marks, times 100).
C28_ReturnedGradeIsOfReturnedPercentage ==
    SheetReturned =>
        \E rule \in get_grade_for_percentage(rules, response.ret.percentage, orm) :
            /\ response.ret.grade = rule.grade
            /\ response.ret.gpa = rule.gpa

\* C30: a sheet is marked as graded only when a Result of its student, exam
\* and subject is stored; a request that fails leaves the sheets as they
\* were; and a sheet marked as graded stays marked.
C30_GradedOnlyAfterResultStored ==
    /\ [](\A a \in sheets :
            a.is_graded => /\ a.graded_at # "None"
                           /\ KeyRows(a.student, a.exam, a.subject) # {})
    /\ [][/\ (response'.op = "auto_grade" /\ response'.raised) => sheets' = sheets
          /\ \A a \in sheets :
                a.is_graded => \E b \in sheets' : b.id = a.id /\ b.is_graded]_vars

\* C30 witness: a request graded its sheet, the Result it returned is stored
\* under the sheet's key, and the sheet is marked as graded.
C30_Witness ==
    /\ SheetReturned
    /\ GradedSheet.is_graded /\ GradedSheet.graded_at = "now"
    /\ \E r \in KeyRows(GradedSheet.student, GradedSheet.exam, GradedSheet.subject) :
          r.id = response.ret.result_id

(***************************************************************************)
(* SpecKeywordMatch: calculate_keyword_match called directly.              *)
(***************************************************************************)
\* The variables of the other specifications, at rest.
Idle ==
    /\ question = Question(0, "e1", 0, "MCQ", 1, McqKey(JMissing))
    /\ student_answer = <<>> /\ config = NoConfig /\ outcome = NotCalled
    /\ configs = {} /\ questions = {} /\ sheets = {} /\ results = {} /\ rules = {}
    /\ orm = "all_fields" /\ response = NoResponse

\* The keywords arguments: no keyword, one, two, one that a token of the
\* answer can resemble, one that is a stopword, one with case and punctuation.
KeywordLists ==
    { <<>>, <<w_cat>>, <<w_cat, w_sat>>, <<w_cats>>, <<<<"a">>>>,
      <<<<"C", "a", "t", ".">>>> }

\* The weights arguments: None (JMissing), or a list: of the keywords' length
\* or not, with negative entries, with sum 0.
WeightLists ==
    { JMissing } \cup
    { JList(w) : w \in { <<>>, <<1>>, <<3>>, <<1, 1>>, <<1, 3>>, <<2, -1>>,
                         <<1, -1>>, <<0, 0>>, <<1, 1, 1>> } }

InitKeywordMatch ==
    /\ call \in [fn : {"calculate_keyword_match"}, student_answer : Texts,
                 keywords : {JList(k) : k \in KeywordLists}, weights : WeightLists,
                 done : {FALSE}, order : {<<>>}, raised : {FALSE}, value : {R0}]
    /\ Idle

KeywordMatch ==
    /\ call.fn = "calculate_keyword_match" /\ ~call.done
    /\ \E order \in Orders(student_words_of(call.student_answer)) :
       \E r \in {calculate_keyword_match(call.student_answer, call.keywords,
                                         call.weights, order)} :
         call' = [call EXCEPT !.done = TRUE, !.order = order,
                              !.raised = r.raised, !.value = r.value]
    /\ UNCHANGED <<question, student_answer, config, outcome>>
    /\ UNCHANGED configs
    /\ UNCHANGED db_vars

NextKeywordMatch == KeywordMatch

SpecKeywordMatch == InitKeywordMatch /\ [][NextKeywordMatch]_vars

(***************************************************************************)
(* Claims on calculate_keyword_match (SpecKeywordMatch).                   *)
(***************************************************************************)
KeywordMatched == call.fn = "calculate_keyword_match" /\ call.done

\* C12: calculate_keyword_match returns a value in [0, 1] for every answer,
\* every keyword list and every weight list, negative weights and weight
\* lists of another length than the keyword list included.
C12_KeywordMatchWithinUnitInterval ==
    KeywordMatched => ~call.raised /\ InUnitInterval(call.value)

SuppliedWeightSum == RSum([i \in 1..Len(call.weights.v) |-> Rat(call.weights.v[i], 1)])

\* C13: calculate_keyword_match returns exactly 0 when the keyword list is
\* empty, when the answer is empty or only whitespace, and when the supplied
\* weights sum to 0, whatever the other arguments are.
C13_KeywordMatchZeroCases ==
    (KeywordMatched
     /\ \/ call.keywords.v = <<>>
        \/ Blank(call.student_answer)
        \/ call.weights.t = "list" /\ SuppliedWeightSum = R0)
    => ~call.raised /\ call.value = R0

\* Every keyword, normalized, is a non-empty substring of the normalized
\* answer.
AllVerbatim ==
    /\ call.keywords.v # <<>>
    /\ \A i \in DOMAIN call.keywords.v :
          /\ preprocess_text(call.keywords.v[i], TRUE) # <<>>
          /\ contains(preprocess_text(call.student_answer, TRUE),
                      preprocess_text(call.keywords.v[i], TRUE))

\* C14: calculate_keyword_match returns 1.0 when every normalized keyword
\* occurs verbatim in the normalized answer, under the default weights and
\* under any supplied weights whose sum is positive.
C14_KeywordMatchAllVerbatimIsOne ==
    (KeywordMatched /\ AllVerbatim
     /\ (call.weights.t = "list" => RLt(R0, SuppliedWeightSum)))
    => ~call.raised /\ call.value = R1

\* The best similarity to the keyword among the words that reach the
\* threshold, 0 when none does.
BestSimilarity(keyword_clean, words) ==
    LET near == {w \in words :
                    RGe(calculate_levenshtein_similarity(keyword_clean, w), FuzzyThreshold)}
    IN  IF near = {} THEN R0
        ELSE calculate_levenshtein_similarity(
                 keyword_clean,
                 CHOOSE w \in near : \A v \in near :
                     RGe(calculate_levenshtein_similarity(keyword_clean, w),
                         calculate_levenshtein_similarity(keyword_clean, v)))

\* C15: the score does not depend on the order in which the distinct words
\* of the answer are visited, and a single keyword that does not occur
\* verbatim scores the best similarity among the words at or above 0.80.
C15_FuzzyMatchOrderIndependent ==
    (KeywordMatched /\ ~call.raised) =>
        /\ \A o \in Orders(student_words_of(call.student_answer)) :
              calculate_keyword_match(call.student_answer, call.keywords,
                                      call.weights, o).value = call.value
        /\ (/\ Len(call.keywords.v) = 1 /\ call.weights.t = "missing"
            /\ call.student_answer # <<>>
            /\ ~contains(preprocess_text(call.student_answer, TRUE),
                         preprocess_text(call.keywords.v[1], TRUE)))
           => call.value = BestSimilarity(preprocess_text(call.keywords.v[1], TRUE),
                                          student_words_of(call.student_answer))


(***************************************************************************)
(* SpecFuse: bayesian_inference called directly.                           *)
(***************************************************************************)
Steps == 10

\* The scores and priors of the calls: 0, 1/Steps, ..., 1.
UnitGrid == {Rat(k, Steps) : k \in 0..Steps}

InitFuse ==
    /\ call \in [fn : {"bayesian_inference"}, keyword_score : UnitGrid,
                 similarity_score : UnitGrid, prior_probability : UnitGrid,
                 done : {FALSE}, value : {R0}]
    /\ Idle

Fuse ==
    /\ call.fn = "bayesian_inference" /\ ~call.done
    /\ call' = [call EXCEPT !.done = TRUE,
                            !.value = bayesian_inference(call.keyword_score,
                                                         call.similarity_score,
                                                         call.prior_probability)]
    /\ UNCHANGED <<question, student_answer, config, outcome>>
    /\ UNCHANGED configs
    /\ UNCHANGED db_vars

NextFuse == Fuse

SpecFuse == InitFuse /\ [][NextFuse]_vars

(***************************************************************************)
(* Claims on bayesian_inference (SpecFuse).                                *)
(***************************************************************************)
Fused == call.fn = "bayesian_inference" /\ call.done

\* 0.6 x keyword_score + 0.4 x similarity_score
Evidence ==
    RAdd(RMul(Rat(6, 10), call.keyword_score), RMul(Rat(4, 10), call.similarity_score))

EvidenceTotal ==
    RAdd(RMul(Evidence, call.prior_probability),
         RMul(RSub(R1, Evidence), RSub(R1, call.prior_probability)))

\* C17: for scores and prior in [0, 1] the fused confidence is in [0, 1]: it
\* is evidence x prior / (evidence x prior + (1 - evidence) x (1 - prior))
\* when that denominator is not 0, and 0 when it is 0.
C17_FuseWithinUnitInterval ==
    Fused =>
        /\ InUnitInterval(call.value)
        /\ EvidenceTotal # R0 =>
              RMul(call.value, EvidenceTotal) = RMul(Evidence, call.prior_probability)
        /\ EvidenceTotal = R0 => call.value = R0

\* C17 witness: full evidence against a prior of 0 makes the denominator 0,
\* and the call returned 0.
C17_Witness ==
    /\ Fused
    /\ call.keyword_score = R1 /\ call.similarity_score = R1
    /\ call.prior_probability = R0
    /\ EvidenceTotal = R0
    /\ call.value = R0


(***************************************************************************)
(* SpecClassify: GradingRule.get_grade_for_percentage called as            *)
(* Result.save calls it, on the percentage of some marks.                  *)
(***************************************************************************)
\* The GradingRule tables: the seeded scale, no rule, bands that overlap
\* (every band open to 100), and bands that leave 50..60 uncovered.
RuleTables ==
    { SeededRules,
      {},
      { GradingRule("P", 4000, 10000, 200), GradingRule("M", 6000, 10000, 300),
        GradingRule("D", 8000, 10000, 400) },
      { GradingRule("L", 0, 5000, 100), GradingRule("H", 6000, 10000, 400) } }

\* marks_obtained, in thousandths of a mark, and Subject.full_marks.
MarksInThousandths ==
    { 0, 2998, 2999, 3000, 7500, 8250, 8500, 9000, 12000, 12750, 13499, 13500,
      15000, 16000, 19990, 50000, 59995, 85000, 89995, 100000 }

FullMarks == {15, 100}

\* (self.marks_obtained / self.subject.full_marks) * 100
Percentages ==
    { RMul(RDiv(Rat(m, 1000), Rat(f, 1)), Rat(100, 1)) :
        m \in MarksInThousandths, f \in FullMarks }

InitClassify ==
    /\ call \in [fn : {"get_grade_for_percentage"}, percentage : Percentages,
                 done : {FALSE}, found : {{}}]
    /\ rules \in RuleTables
    /\ orm \in Orm
    /\ question = Question(0, "e1", 0, "MCQ", 1, McqKey(JMissing))
    /\ student_answer = <<>> /\ config = NoConfig /\ outcome = NotCalled
    /\ configs = {} /\ questions = {} /\ sheets = {} /\ results = {}
    /\ response = NoResponse

Classify ==
    /\ call.fn = "get_grade_for_percentage" /\ ~call.done
    /\ call' = [call EXCEPT !.done = TRUE,
                            !.found = get_grade_for_percentage(rules, call.percentage, orm)]
    /\ UNCHANGED <<question, student_answer, config, outcome>>
    /\ UNCHANGED configs
    /\ UNCHANGED db_vars

NextClassify == Classify

SpecClassify == InitClassify /\ [][NextClassify]_vars

(***************************************************************************)
(* Claims on get_grade_for_percentage (SpecClassify).                      *)
(***************************************************************************)
Classified == call.fn = "get_grade_for_percentage" /\ call.done

\* The bands whose closed range contains the value the lookup compares.
Containing ==
    {r \in rules : /\ RLe(r.min_percentage, lookup_value(call.percentage, orm))
                   /\ RLe(lookup_value(call.percentage, orm), r.max_percentage)}

HalfOpenBand(percentage) ==
    {r \in SeededRules :
        /\ RLe(r.min_percentage, percentage)
        /\ \A o \in SeededRules :
              RLt(r.min_percentage, o.min_percentage) => RLt(percentage, o.min_percentage)}

\* C19: under the seeded nine-band scale every percentage in [0, 100] is
\* classified into exactly one band, the band of the half-open reading; no
\* percentage between two adjacent bands is left without a grade.
C19_SeededScaleHasNoGaps ==
    (Classified /\ rules = SeededRules
     /\ RLe(R0, call.percentage) /\ RLe(call.percentage, Rat(100, 1)))
    => call.found = HalfOpenBand(call.percentage)


(***************************************************************************)
(* SpecBulkEntry: BulkMarkEntryView.post, request after request.           *)
(***************************************************************************)
MaxPosts == 2

InitBulkEntry ==
    /\ call = [fn |-> "BulkMarkEntryView.post", count |-> 0]
    /\ rules \in {{}, SeededRules}
    /\ orm \in Orm
    /\ results = {}
    /\ question = Question(0, "e1", 0, "MCQ", 1, McqKey(JMissing))
    /\ student_answer = <<>> /\ config = NoConfig /\ outcome = NotCalled
    /\ configs = {} /\ questions = {} /\ sheets = {}
    /\ response = NoResponse

\* One POST; call keeps the form data and the Result table it found.
BulkEntry ==
    /\ call.fn = "BulkMarkEntryView.post" /\ call.count < MaxPosts
    /\ \E post \in [Students -> [{"math"} -> MarkValues]] :
         /\ results' = BulkMarkEntryView_post(post, db)
         /\ call' = [fn |-> "BulkMarkEntryView.post", count |-> call.count + 1,
                     post |-> post, before |-> results]
    /\ response' = [op |-> "bulk_entry"]
    /\ UNCHANGED <<question, student_answer, config, outcome>>
    /\ UNCHANGED <<questions, sheets, rules, configs, orm>>

NextBulkEntry == BulkEntry

SpecBulkEntry == InitBulkEntry /\ [][NextBulkEntry]_vars

(***************************************************************************)
(* Claims on BulkMarkEntryView.post (SpecBulkEntry).                       *)
(***************************************************************************)
Posted == call.fn = "BulkMarkEntryView.post" /\ call.count > 0

\* The rows of a student in a table, without their ids.
RowsOf(table, student) ==
    {[k \in DOMAIN r \ {"id"} |-> r[k]] : r \in {x \in table : x.student = student}}

Unparseable(value) == value # <<>> /\ strip(value) # <<>> /\ Decimal(value).raised

\* C21: in a bulk mark entry every entry has the effect it would have had
\* as the only entry of the request, whatever the other entries are: an
\* entry that cannot be parsed or stored, and an entry left empty, leave the
\* Result of their student as it was, and every other entry is applied.
C21_BulkEntriesAreIndependent ==
    Posted =>
        \A student \in Students :
            /\ RowsOf(results, student)
                 = RowsOf(bulk_entry_one(call.before, student, "math",
                                         call.post[student]["math"], rules, orm),
                          student)
            /\ (Unparseable(call.post[student]["math"]) \/ call.post[student]["math"] = <<>>)
                 => RowsOf(results, student) = RowsOf(call.before, student)

\* C21 witness: the entry of the first student could not be parsed and the
\* entry of the second student, 8.5, was stored in a new Result.
C21_Witness ==
    /\ Posted
    /\ Unparseable(call.post["s1"]["math"])
    /\ call.post["s2"]["math"] = <<"8", ".", "5">>
    /\ RowsOf(call.before, "s2") = {}
    /\ \E r \in results : r.student = "s2" /\ r.marks_obtained = Rat(17, 2)


(***************************************************************************)
(* SpecCosine: calculate_cosine_similarity called directly.                *)
(***************************************************************************)
\* The second texts of the calls, beside the first text itself: empty, blank,
\* a stopword, a one-letter word, words with case and punctuation, a number.
SecondTexts ==
    { JStr(t) : t \in { <<>>, <<" ">>, <<"a">>, <<"b">>, <<"C", "a", "t", ".">>,
                        w_cats, w_cat \o <<" ">> \o w_sat,
                        w_sat \o <<" ">> \o w_sat \o <<" ">> \o w_cat } }
    \cup { JNum(7) }

InitCosine ==
    /\ \E text1 \in Texts, text2 \in SecondTexts \cup {JStr(t) : t \in Texts} :
         /\ text2 \in SecondTexts \/ text2 = JStr(text1)
         /\ call = [fn |-> "calculate_cosine_similarity", text1 |-> text1,
                    text2 |-> text2, done |-> FALSE, value |-> R0]
    /\ Idle

Cosine ==
    /\ call.fn = "calculate_cosine_similarity" /\ ~call.done
    /\ call' = [call EXCEPT !.done = TRUE,
                            !.value = calculate_cosine_similarity(call.text1, call.text2)]
    /\ UNCHANGED <<question, student_answer, config, outcome>>
    /\ UNCHANGED configs
    /\ UNCHANGED db_vars

NextCosine == Cosine

SpecCosine == InitCosine /\ [][NextCosine]_vars

(***************************************************************************)
(* Claims on calculate_cosine_similarity (SpecCosine).                     *)
(***************************************************************************)
CosineDone == call.fn = "calculate_cosine_similarity" /\ call.done

\* The normalized texts of the call (the second one when it is a str).
Clean1 == preprocess_text(call.text1, TRUE)
Clean2 == IF call.text2.t = "str" THEN preprocess_text(call.text2.v, TRUE) ELSE <<>>

\* No term for the vectorizer in either text.
EmptyVocabulary == tfidf_tokens(Clean1) = <<>> /\ tfidf_tokens(Clean2) = <<>>

\* C24: calculate_cosine_similarity returns exactly 0.0 when a text is empty
\* or is empty after normalization, and when the vector space cannot be
\* built (empty vocabulary, a second text that is not a str).
C24_CosineZeroOnEmptyOrFailure ==
    (CosineDone /\ (\/ call.text1 = <<>> \/ call.text2 = JStr(<<>>)
                    \/ Clean1 = <<>> \/ Clean2 = <<>>
                    \/ call.text2.t # "str"
                    \/ EmptyVocabulary))
    => call.value = R0

\* C24 witness: two equal texts of one one-letter word, not empty after
\* normalization, leave the vocabulary empty, and the call returned 0.
C24_Witness ==
    /\ CosineDone
    /\ call.text1 = <<"b">> /\ call.text2 = JStr(<<"b">>)
    /\ Clean1 # <<>> /\ EmptyVocabulary
    /\ call.value = R0

\* C25: the similarity of a text with itself is 1.0 for every text that is
\* not empty after normalization, and the similarity of two texts with no
\* common word after normalization is 0.
C25_CosineIdentityAndDisjoint ==
    (CosineDone /\ call.text2.t = "str") =>
        /\ (call.text2.v = call.text1 /\ Clean1 # <<>>) => call.value = R1
        /\ Range(split(Clean1)) \cap Range(split(Clean2)) = {} => call.value = R0


(***************************************************************************)
(* SpecNormalize: preprocess_text called directly.                         *)
(***************************************************************************)
\* The texts of the calls: None, the submitted texts, and one with leading,
\* doubled and trailing spaces, upper case, and punctuation inside a word
\* that is a stopword without it.
InitNormalize ==
    /\ \E text \in {JMissing} \cup {JStr(t) : t \in Texts}
                   \cup {JStr(<<" ", "I", ".", "s", " ", " ", "C", "a", "t", ".", " ">>)},
          remove_stopwords \in BOOLEAN :
         call = [fn |-> "preprocess_text", text |-> text,
                 remove_stopwords |-> remove_stopwords, done |-> FALSE, value |-> <<>>]
    /\ Idle

\* `not text` holds for None as for ''.
Normalize ==
    /\ call.fn = "preprocess_text" /\ ~call.done
    /\ call' = [call EXCEPT !.done = TRUE,
                            !.value = IF call.text.t = "missing" THEN <<>>
                                      ELSE preprocess_text(call.text.v, call.remove_stopwords)]
    /\ UNCHANGED <<question, student_answer, config, outcome>>
    /\ UNCHANGED configs
    /\ UNCHANGED db_vars

NextNormalize == Normalize

SpecNormalize == InitNormalize /\ [][NextNormalize]_vars

(***************************************************************************)
(* Claims on preprocess_text (SpecNormalize).                              *)
(***************************************************************************)
NormalizeDone == call.fn = "preprocess_text" /\ call.done

\* Lowercase, without punctuation, words separated by single spaces with no
\* space at either end, and without stopwords when they are removed.
NormalForm(text, remove_stopwords) ==
    /\ \A i \in DOMAIN text : text[i] \notin Range(UpperLetters) \cup Punctuation
    /\ join(split(text)) = text
    /\ remove_stopwords => \A i \in DOMAIN split(text) : split(text)[i] \notin STOPWORDS

\* C26: preprocess_text returns a text in normal form, normalizing its result
\* again changes nothing, and an empty or absent text gives the empty string.
C26_NormalizeIsIdempotent ==
    NormalizeDone =>
        /\ NormalForm(call.value, call.remove_stopwords)
        /\ preprocess_text(call.value, call.remove_stopwords) = call.value
        /\ (call.text = JMissing \/ call.text = JStr(<<>>)) => call.value = <<>>

\* C26 witness: ' I.s  Cat. ' with stopword removal became 'cat'.
C26_Witness ==
    /\ NormalizeDone /\ call.remove_stopwords
    /\ call.text = JStr(<<" ", "I", ".", "s", " ", " ", "C", "a", "t", ".", " ">>)
    /\ call.value = <<"c", "a", "t">>


(***************************************************************************)
(* SpecWriters: an automatic re-grade and a bulk mark entry for the key    *)
(* (s1, e1, math) with their database statements interleaved.  Each        *)
(* update_or_create is one step: it runs in a transaction that locks the   *)
(* row.  grade_answer_sheet writes the Result in that one statement; the   *)
(* bulk entry writes it twice, in update_or_create and in result.save(),   *)
(* and another request can commit between the two.                         *)
(***************************************************************************)
MaxWrites == 3

NoInstance == [id |-> 0]

NoWriter == [writer |-> "none"]

\* What a writer leaves in its Result instance when it commits.
Output(writer, obj) ==
    [writer |-> writer, marks_obtained |-> obj.marks_obtained, grade |-> obj.grade,
     gpa |-> obj.gpa, is_pass |-> obj.is_pass]

InitWriters ==
    /\ questions \in Papers
    /\ orm \in Orm
    /\ rules = SeededRules
    /\ \E answers \in SubmittedAnswers :
         sheets = {[id |-> 1, student |-> "s1", exam |-> "e1", subject |-> "math",
                    submitted_answers |-> answers, is_graded |-> FALSE,
                    graded_at |-> "None"]}
    /\ results = {} /\ configs = {}
    /\ response = NoResponse
    /\ question = Question(0, "e1", 0, "MCQ", 1, McqKey(JMissing))
    /\ student_answer = <<>> /\ config = NoConfig /\ outcome = NotCalled
    /\ call = [fn |-> "writers", pc |-> "idle", result |-> NoInstance,
               last |-> NoWriter, writes |-> 0]

\* BulkMarkEntryView.post with the field of s1 filled in, up to and with
\* its update_or_create (lines 99-121).
BulkUpdateOrCreate ==
    /\ call.fn = "writers" /\ call.pc = "idle" /\ call.writes < MaxWrites
    /\ \E mark_value \in MarkValues :
       \E marks \in {Decimal(mark_value)} :
         IF mark_value = <<>> \/ strip(mark_value) = <<>> \/ marks.raised
         THEN /\ call' = [call EXCEPT !.writes = @ + 1]
              /\ UNCHANGED results
         ELSE \E upsert \in {update_or_create(results, "s1", "e1", "math",
                                               marks.value, rules, orm)} :
                IF upsert.raised
                THEN /\ call' = [call EXCEPT !.writes = @ + 1]
                     /\ UNCHANGED results
                ELSE /\ results' = upsert.table
                     /\ call' = [call EXCEPT !.writes = @ + 1,
                                             !.pc = "upserted",
                                             !.result = upsert.obj,
                                             !.last = Output("bulk_entry", upsert.obj)]
    /\ response' = [op |-> "bulk_entry"]
    /\ UNCHANGED <<questions, sheets, rules, configs, orm>>
    /\ UNCHANGED <<question, student_answer, config, outcome>>

\* result.save() of the bulk entry (line 122) and the end of the request.
BulkSave ==
    /\ call.fn = "writers" /\ call.pc = "upserted"
    /\ \E saved \in {save_result(results, call.result, rules, orm)} :
         IF saved.raised
         THEN /\ call' = [call EXCEPT !.pc = "idle", !.result = NoInstance]
              /\ UNCHANGED results
         ELSE /\ results' = saved.table
              /\ call' = [call EXCEPT !.pc = "idle", !.result = NoInstance,
                                      !.last = Output("bulk_entry", saved.obj)]
    /\ response' = [op |-> "bulk_entry"]
    /\ UNCHANGED <<questions, sheets, rules, configs, orm>>
    /\ UNCHANGED <<question, student_answer, config, outcome>>

\* AutoGradeView.get for the sheet of s1.
AutoGradeWriter ==
    /\ call.fn = "writers" /\ call.writes < MaxWrites
    /\ \E answer_sheet \in sheets :
       \E orders \in OrdersOf(answer_sheet) :
       \E config_ \in IF \E c \in configs : c.name = "Default"
                      THEN {c \in configs : c.name = "Default"} ELSE {NoConfig} :
       \E r \in {grade_answer_sheet(answer_sheet, config_, db, orders)} :
         /\ configs' = r.configs
         /\ results' = r.results
         /\ sheets' = r.sheets
         /\ response' = [op |-> "auto_grade", answer_sheet |-> answer_sheet.id,
                         raised |-> r.raised, failed_question |-> r.failed_question,
                         created |-> r.created, ret |-> r.ret]
         /\ call' = [call EXCEPT
                        !.writes = @ + 1,
                        !.last = IF r.raised THEN @
                                 ELSE [writer |-> "auto_grade",
                                       marks_obtained |-> r.ret.total_marks_obtained,
                                       grade |-> r.ret.grade, gpa |-> r.ret.gpa,
                                       is_pass |-> r.ret.is_pass]]
    /\ UNCHANGED <<questions, rules, orm>>
    /\ UNCHANGED <<question, student_answer, config, outcome>>

NextWriters == BulkUpdateOrCreate \/ BulkSave \/ AutoGradeWriter

SpecWriters == InitWriters /\ [][NextWriters]_vars

(***************************************************************************)
(* Claims on interleaved writers (SpecWriters).                            *)
(***************************************************************************)
\* No request is between two of its statements, and one has committed.
WritersAtRest == call.fn = "writers" /\ call.pc = "idle" /\ call.last # NoWriter

\* C29: when the requests that write the Result of one key have ended, the
\* stored row is the complete output of the writer that committed last: its
\* marks, the percentage of these marks, and its grade, GPA and pass flag;
\* no column keeps a value from before that commit.
C29_StoredResultIsTheLastWrite ==
    WritersAtRest =>
        \A r \in KeyRows("s1", "e1", "math") :
            /\ r.marks_obtained = Quantize2(call.last.marks_obtained)
            /\ r.percentage =
                   Quantize2(RMul(RDiv(call.last.marks_obtained,
                                       Rat(SubjectRow("math").full_marks, 1)),
                                  Rat(100, 1)))
            /\ r.grade = call.last.grade
            /\ r.gpa = Quantize2(call.last.gpa)
            /\ r.is_pass = call.last.is_pass

====
